---------------------------- MODULE Spec2Model ----------------------------
(***************************************************************************)
(* Orchestrator worker pool of alice_chatbot: Kafka consumer with retry    *)
(* queue and dead-letter queue (orchestrator/app/services), the Redis      *)
(* result channel, the DLQ admin endpoints (orchestrator/app/main.py) and  *)
(* the gateway's poll endpoint (backend/app/routes/stream.py).             *)
(*                                                                         *)
(* Text is modelled as a sequence of one-character strings, so that        *)
(* lower-casing, substring search, slicing and concatenation are computed. *)
(***************************************************************************)
EXTENDS Integers, Sequences, FiniteSets, Bags, TLC

(***************************************************************************)
(* Bounds of the model.                                                    *)
(***************************************************************************)
NumIds == 1          \* correlation ids the gateway hands out
MaxTasks == 3        \* worker tasks that exist at the same time
MaxChunks == 1
MaxStream == 21
MaxChatRaises == 1
MaxRounds == 3       \* retries of one payload followed on its own
MaxBackoffArg == 20  \* largest retry_count handed to calculate_backoff_delay
MaxSamples == 12     \* longest latency sample list
MaxEvents == 2       \* records waiting on the analytics bus
MaxChecks == 5       \* requests that reach the rate limiter in one run
MaxNow == 4          \* seconds the gateway's clock advances in one run
MaxTtl == 2          \* longest ttl_seconds of a blacklist entry
\* Settings.RATE_LIMIT_CHAT and Settings.RATE_LIMIT_WINDOW_SECONDS
\* (backend/app/config.py: 30 requests per 60 seconds), run at a size the
\* limit is reached and the window expires
RATE_LIMIT_CHAT == 2
RATE_LIMIT_WINDOW_SECONDS == 3
MaxAdminOps == 2     \* DLQ admin calls in one run
MaxDlq == 2          \* DLQ documents ever inserted
MaxFaults == 1       \* store/bus calls of the failure path that raise
MaxRaises == 7       \* handler calls that raise in one run
MaxStopRaises == 3   \* the same, in runs with process stops
MaxAdminRaises == 2  \* the same, in runs with DLQ administration
MaxStops == 1        \* worker process stops
MaxRetryArg == 7     \* largest retry_count handed to should_retry alone
\* Settings.MAX_WORKERS (config.py: 10 unless the environment sets it), run
\* at a size the cap is reached with MaxTasks tasks
MAX_WORKERS == 2

(***************************************************************************)
(* Settings (orchestrator/app/config.py) and module constants.             *)
(***************************************************************************)
MAX_RETRY_COUNT == 5
FLUSH_INTERVAL == 10
RETRY_BACKOFF_BASE == 1
RETRY_BACKOFF_MULTIPLIER == 2
RETRY_BACKOFF_MAX == 120
RETRY_JITTER_MAX == 2
ERROR_PREVIEW == 500

KAFKA_CHAT_TOPIC == "chat_requests"
KAFKA_FILE_TOPIC == "file_requests"
KAFKA_RETRY_TOPIC == "retry_requests"
RAGDATA_TOPIC == "ragdata_requests"
PrimaryTopics == {KAFKA_CHAT_TOPIC, KAFKA_FILE_TOPIC, RAGDATA_TOPIC}

UNKNOWN == 0                  \* data.get("request_id", "unknown")
Ids == 1..NumIds
RequestIds == Ids \cup {UNKNOWN}

(***************************************************************************)
(* Text helpers.                                                           *)
(***************************************************************************)
UpperToLower ==
    [c \in {"A","B","C","D","E","F","G","H","I","J","K","L","M","N","O","P",
            "Q","R","S","T","U","V","W","X","Y","Z"} |->
        CASE c = "A" -> "a" [] c = "B" -> "b" [] c = "C" -> "c" [] c = "D" -> "d"
          [] c = "E" -> "e" [] c = "F" -> "f" [] c = "G" -> "g" [] c = "H" -> "h"
          [] c = "I" -> "i" [] c = "J" -> "j" [] c = "K" -> "k" [] c = "L" -> "l"
          [] c = "M" -> "m" [] c = "N" -> "n" [] c = "O" -> "o" [] c = "P" -> "p"
          [] c = "Q" -> "q" [] c = "R" -> "r" [] c = "S" -> "s" [] c = "T" -> "t"
          [] c = "U" -> "u" [] c = "V" -> "v" [] c = "W" -> "w" [] c = "X" -> "x"
          [] c = "Y" -> "y" [] c = "Z" -> "z"]

\* str.lower()
Lower(s) == [i \in 1..Len(s) |-> IF s[i] \in DOMAIN UpperToLower
                                 THEN UpperToLower[s[i]] ELSE s[i]]

\* pattern in text
Contains(text, pattern) ==
    \E i \in 1..(Len(text) - Len(pattern) + 1) :
        SubSeq(text, i, i + Len(pattern) - 1) = pattern

\* text[:n]
Take(text, n) == SubSeq(text, 1, IF Len(text) < n THEN Len(text) ELSE n)

Digit(d) == CASE d = 0 -> "0" [] d = 1 -> "1" [] d = 2 -> "2" [] d = 3 -> "3"
              [] d = 4 -> "4" [] d = 5 -> "5" [] d = 6 -> "6" [] d = 7 -> "7"
              [] d = 8 -> "8" [] d = 9 -> "9"

\* f"{n}" of a number below 100
Str(n) == IF n < 10 THEN <<Digit(n)>> ELSE <<Digit(n \div 10), Digit(n % 10)>>

(***************************************************************************)
(* Retry policy (config.py, retry_handler.py).                             *)
(***************************************************************************)
RETRYABLE_ERRORS ==
    << <<"t", "i", "m", "e", "o", "u", "t">>,
       <<"r", "a", "t", "e", "_", "l", "i", "m", "i", "t">>,
       <<"c", "o", "n", "n", "e", "c", "t", "i", "o", "n">>,
       <<"n", "e", "t", "w", "o", "r", "k">>,
       <<"5", "0", "3">>,
       <<"5", "0", "4">>,
       <<"4", "2", "9">>,
       <<"t", "e", "m", "p", "o", "r", "a", "r", "y">>,
       <<"u", "n", "a", "v", "a", "i", "l", "a", "b", "l", "e">>,
       <<"o", "v", "e", "r", "l", "o", "a", "d", "e", "d">> >>

RECURSIVE MatchFrom(_, _)
\* the for loop of is_retryable_error, from pattern k on
MatchFrom(error_str, k) ==
    IF k > Len(RETRYABLE_ERRORS) THEN FALSE
    ELSE IF Contains(error_str, RETRYABLE_ERRORS[k]) THEN TRUE
    ELSE MatchFrom(error_str, k + 1)

is_retryable_error(error) == MatchFrom(Lower(error), 1)

\* should_retry with the bound tested by > instead of >=
should_retry_late(error, retry_count) ==
    IF retry_count > MAX_RETRY_COUNT THEN FALSE
    ELSE is_retryable_error(error)

should_retry(error, retry_count) ==
    IF retry_count >= MAX_RETRY_COUNT THEN FALSE
    ELSE is_retryable_error(error)

\* error messages handlers raise: one transient, one terminal
ErrTransient == <<"C", "o", "n", "n", "e", "c", "t", "i", "o", "n", " ",
                  "r", "e", "f", "u", "s", "e", "d">>
ErrTerminal == <<"C", "o", "n", "v", "e", "r", "s", "a", "t", "i", "o", "n", " ",
                 "n", "o", "t", " ", "f", "o", "u", "n", "d">>
HandlerErrors == {ErrTransient, ErrTerminal}

\* error messages should_retry is applied to on its own
ErrorMessages ==
    { ErrTransient, ErrTerminal,
      <<"R", "e", "q", "u", "e", "s", "t", " ", "T", "I", "M", "E", "O", "U", "T">>,
      <<"H", "T", "T", "P", " ", "5", "0", "3">>,
      <<"H", "T", "T", "P", " ", "5", "0", "4">>,
      <<"H", "T", "T", "P", " ", "4", "2", "9">>,
      <<"H", "T", "T", "P", " ", "5", "0", "0">>,
      <<"R", "a", "t", "e", "_", "L", "i", "m", "i", "t", " ", "h", "i", "t">>,
      <<"r", "a", "t", "e", " ", "l", "i", "m", "i", "t", " ", "h", "i", "t">>,
      <<"N", "e", "t", "w", "o", "r", "k", " ", "d", "o", "w", "n">>,
      <<"T", "e", "m", "p", "o", "r", "a", "r", "y", " ", "g", "l", "i", "t", "c", "h">>,
      <<"S", "e", "r", "v", "i", "c", "e", " ", "U", "n", "a", "v", "a", "i", "l",
        "a", "b", "l", "e">>,
      <<"M", "o", "d", "e", "l", " ", "O", "V", "E", "R", "L", "O", "A", "D", "E", "D">>,
      <<"t", "i", "m", "e", " ", "o", "u", "t">>,
      <<>> }

(***************************************************************************)
(* Messages on the bus.  A JSON object is a function from its keys to      *)
(* their values; a Kafka record is [topic, value], with the history field  *)
(* calls: the handler invocations made so far for this submission.         *)
(***************************************************************************)
RECURSIVE BagOfSeq(_)
\* the bag of the elements of a sequence
BagOfSeq(q) ==
    IF q = <<>> THEN EmptyBag ELSE SetToBag({Head(q)}) (+) BagOfSeq(Tail(q))

\* d.get(key, default)
Get(d, key, default) == IF key \in DOMAIN d THEN d[key] ELSE default

\* d[key] = v; also {**d, key: v}
Put(d, key, v) == [f \in (DOMAIN d) \cup {key} |-> IF f = key THEN v ELSE d[f]]

\* d after d.pop(key, None)
Pop(d, key) == [f \in (DOMAIN d) \ {key} |-> d[f]]

\* value of retry_info when the message has no _retry key
NoRetry == [original_topic |-> "", retry_count |-> 0, max_retry |-> 0,
            last_error |-> <<>>]

\* the fields the gateway puts in a job (routes/chat.py: kafka_data)
JobData == [conversation_id |-> 1]

\* kafka_producer.publish_chat_request / publish_file_request /
\* publish_ragdata_request: {"request_id": request_id, **data}
Envelope(topic, request_id, data) ==
    [topic |-> topic,
     value |-> [f \in {"request_id"} \cup DOMAIN data |->
                   IF f \in DOMAIN data THEN data[f] ELSE request_id],
     calls |-> 0]

\* kafka_producer.publish_ragdata_delete: no request_id
publish_ragdata_delete(file_id) ==
    [topic |-> RAGDATA_TOPIC,
     value |-> [action |-> "delete", file_id |-> file_id],
     calls |-> 0]

\* create_retry_payload that forgets to count the attempt
create_retry_payload_same_count(original_data, original_topic, error, retry_count) ==
    Put(original_data, "_retry",
        [original_topic |-> original_topic,
         retry_count |-> retry_count,
         max_retry |-> MAX_RETRY_COUNT,
         last_error |-> error])

\* {**original_data, "_retry": {...}}
create_retry_payload(original_data, original_topic, error, retry_count) ==
    Put(original_data, "_retry",
        [original_topic |-> original_topic,
         retry_count |-> retry_count + 1,
         max_retry |-> MAX_RETRY_COUNT,
         last_error |-> error])

\* bool(data.get("_retry")): the key is there and its dict is not empty
Truthy(data) == "_retry" \in DOMAIN data /\ DOMAIN data["_retry"] # {}

\* an extraction that leaves _retry in the data it returns
extract_retry_info_keeps(data) ==
    [original_data |-> data,
     present |-> Truthy(data),
     retry_info |-> Get(data, "_retry", NoRetry)]

\* (original_data, retry_info); present is the truth value of retry_info
extract_retry_info(data) ==
    [original_data |-> Pop(data, "_retry"),
     present |-> Truthy(data),
     retry_info |-> Get(data, "_retry", NoRetry)]

\* request_id = data.get("request_id", "unknown")
request_id_of(data) == Get(data, "request_id", UNKNOWN)

(***************************************************************************)
(* Result channel (redis_client.py): result:<id> -> JSON document.         *)
(***************************************************************************)
Blank == [status |-> "", type |-> "", reply |-> 0, finished |-> 0,
          error |-> <<>>, retry_count |-> 0, max_retry |-> 0]
Absent == [Blank EXCEPT !.status = "absent"]

stream_update(res, request_id, reply, finished) ==
    [res EXCEPT ![request_id] =
        [Blank EXCEPT !.status = IF finished # 0 THEN "completed" ELSE "streaming",
                      !.type = "chat", !.reply = reply, !.finished = finished]]

set_result(res, request_id, doc) ==
    [res EXCEPT ![request_id] = [doc EXCEPT !.finished = 1]]

set_error(res, request_id, error) ==
    [res EXCEPT ![request_id] =
        [Blank EXCEPT !.status = "error", !.error = error, !.finished = 1]]

\* analytics_metrics before any event: the value of the request_count,
\* success_count and error_count documents of the one (model, time_bucket)
\* of this model, and the file events aggregated
NoMetrics ==
    [request_count |-> 0, success_count |-> 0, error_count |-> 0,
     files_processed |-> 0]

\* no poll_result call is between its read and its delete
NoPoll == [pending |-> FALSE, id |-> UNKNOWN, doc |-> Absent]

\* the terminal records of the spec's glossary
IsTerminal(doc) == doc.finished = 1 /\ doc.status \in {"completed", "error"}

(***************************************************************************)
(* Dead-letter collection (dlq_handler.py): a set of documents, oid is the *)
(* ObjectId in insertion order.                                            *)
(***************************************************************************)
Matching(coll, request_id) == {d \in coll : d.request_id = request_id}

\* find_one / update_one act on the first matching document
First(docs) == CHOOSE d \in docs : \A o \in docs : d.oid <= o.oid

\* an update that sets the fields and pushes nothing on error_history
dlq_update_no_push(coll, request_id, error, retry_count) ==
    IF Matching(coll, request_id) = {} THEN coll
    ELSE LET d == First(Matching(coll, request_id))
         IN (coll \ {d}) \cup
            {[d EXCEPT !.last_error = error, !.retry_count = retry_count]}

\* save_to_dlq, branch "existing": update_one $set + $push
dlq_update(coll, request_id, error, retry_count) ==
    IF Matching(coll, request_id) = {} THEN coll
    ELSE LET d == First(Matching(coll, request_id))
         IN (coll \ {d}) \cup
            {[d EXCEPT !.last_error = error, !.retry_count = retry_count,
                       !.error_history = Append(@, error)]}

\* save_to_dlq, branch "new entry": insert_one
dlq_insert(coll, oid, request_id, original_topic, message_data, error, retry_count) ==
    coll \cup {[oid |-> oid, request_id |-> request_id,
                original_topic |-> original_topic, message_data |-> message_data,
                last_error |-> error, retry_count |-> retry_count,
                error_history |-> <<error>>, status |-> "pending"]}

\* save_to_dlq run without interruption, oid being the _id an insert would
\* get: the collection it leaves, the id it returns, the next free _id
save_to_dlq(coll, oid, request_id, original_topic, message_data, error, retry_count) ==
    IF Matching(coll, request_id) # {}
    THEN [coll |-> dlq_update(coll, request_id, error, retry_count),
          id |-> First(Matching(coll, request_id)).oid,
          next |-> oid]
    ELSE [coll |-> dlq_insert(coll, oid, request_id, original_topic,
                              message_data, error, retry_count),
          id |-> oid,
          next |-> oid + 1]

mark_dlq_retried(coll, oid) ==
    {IF d.oid = oid THEN [d EXCEPT !.status = "retried"] ELSE d : d \in coll}

mark_dlq_resolved(coll, oid) ==
    {IF d.oid = oid THEN [d EXCEPT !.status = "resolved"] ELSE d : d \in coll}

delete_dlq_item(coll, oid) == {d \in coll : d.oid # oid}

(***************************************************************************)
(* State.                                                                  *)
(***************************************************************************)
VARIABLES
    bus,             \* bag of envelopes published and not yet fetched
    tasks,           \* bag of the tasks created by _consume_loop
    permits,         \* _semaphore._value
    result,          \* Redis: request id -> document under result:<id>
    dlq,             \* Mongo collection dead_letter_queue
    nextOid,         \* next ObjectId
    up,              \* the worker process is running
    adminOps,        \* DLQ admin calls made
    faults,          \* store/bus calls that raised
    raises,          \* handler calls that raised
    stops,           \* process stops so far
    terminalWritten, \* history: a terminal record was written for the id
    handlerCalled,   \* history: a handler was invoked for the id
    closed,          \* the shutdown block of lifespan has run
    admin,           \* the position of the retry_dlq_item request in progress
    response,        \* the last response of an HTTP endpoint
    sr_error, sr_count, sr_done, sr_result,  \* should_retry applied on its own
    args, rets,      \* arguments and returned values of a function applied
                     \* on its own
    conversations,   \* gateway: the conversations collection
    ip_messages,     \* gateway: the ip_messages collection
    ratelimit,       \* gateway: the scores of the zset ratelimit:<key>
    now,             \* gateway: int(time.time())
    blacklist,       \* gateway: the members of the set ip:blacklist
    blacklist_key,   \* gateway: the keys ip:blacklist:<ip>, [ip, expires]
    poll,            \* gateway: poll_result between its read and its delete
    checks,          \* history: the calls of the rate limiter, [at, allowed]
    headers,         \* gateway: the headers of the last response
    emitter,         \* orchestrator: the event emitter's producer
    flow,            \* the events in flight on the analytics bus
    analytics_events,   \* dataflow: the analytics_events collection
    analytics_metrics   \* dataflow: the counters of analytics_metrics

vars == <<bus, tasks, permits, result, dlq, nextOid, up, adminOps,
          faults, raises, stops, terminalWritten, handlerCalled,
          closed, admin, response,
          sr_error, sr_count, sr_done, sr_result, args, rets,
          conversations, ip_messages, ratelimit, now, blacklist,
          blacklist_key, poll, checks,
          headers, emitter, flow, analytics_events, analytics_metrics>>

srVars == <<sr_error, sr_count, sr_done, sr_result, args, rets>>
gwVars == <<conversations, ip_messages, ratelimit, now, blacklist,
           blacklist_key, poll, checks, headers>>
flowVars == <<emitter, flow, analytics_events, analytics_metrics>>
edgeVars == <<gwVars, flowVars>>
envVars == <<up, stops, adminOps, closed, admin>>

\* the task asyncio.create_task(_process_with_semaphore(msg)) creates.
\* did, handler_raised, raised_out, calls and writes are history fields of the
\* attempt; writes lists the documents the try block has put under
\* result:<id>, in order.
NewTask(msg) ==
    [pc |-> "queued", msg |-> msg,
     original_topic |-> "", retry_count |-> 0, err |-> <<>>,
     existing |-> FALSE, handler_raised |-> FALSE, did |-> {},
     raised_out |-> FALSE, chunk_count |-> 0, calls |-> 0,
     committed |-> FALSE, writes |-> <<>>]

\* the request_id local of task k
Rid(k) == request_id_of(k.msg.value)

\* pcs at which the task is inside _process_message
InsidePcs == {"backoff", "handler", "streaming", "deleting", "returned",
              "publish", "set_retrying", "dlq_find", "dlq_write", "set_error"}
\* pcs at which the task awaits a call of the except block
FailurePcs == {"publish", "set_retrying", "dlq_find", "dlq_write", "set_error"}

Tasks == BagToSet(tasks)

RECURSIVE Copies(_)
\* number of tasks among the distinct task records S
Copies(S) ==
    IF S = {} THEN 0
    ELSE LET k == CHOOSE x \in S : TRUE
         IN CopiesIn(k, tasks) + Copies(S \ {k})

\* tasks that hold a permit
Holders == Copies({k \in Tasks : k.pc \in InsidePcs \cup {"done"}})
Inside == Copies({k \in Tasks : k.pc \in InsidePcs})

\* the event loop is free to run a worker step: no task is between its last
\* await and the end of its coroutine (the exit of async with does not yield)
Yielded == \A t \in Tasks : t.pc # "done"

\* task k becomes k2
Step(k, k2) == tasks' = (tasks (-) SetToBag({k})) (+) SetToBag({k2})

\* no retry_dlq_item request is in progress
Idle == [pc |-> "idle", id |-> 0, item |-> <<>>]

\* no endpoint has answered yet
NoResponse == [endpoint |-> "", id |-> 0, code |-> 0, body |-> <<>>]

\* the gateway and the analytics pipeline at rest; the emitter's producer
\* is None until start_event_emitter has run
InitFlow ==
    /\ emitter = "none"
    /\ flow = EmptyBag
    /\ analytics_events = <<>>
    /\ analytics_metrics = NoMetrics

InitEdge ==
    /\ conversations = {}
    /\ ip_messages = <<>>
    /\ ratelimit = <<>>
    /\ now = 0
    /\ blacklist = {}
    /\ blacklist_key = {}
    /\ poll = NoPoll
    /\ checks = <<>>
    /\ headers = {}
    /\ InitFlow

\* the worker, the stores and the admin API at rest
InitCore ==
    /\ tasks = EmptyBag
    /\ permits = MAX_WORKERS
    /\ result = [i \in RequestIds |-> Absent]
    /\ dlq = {}
    /\ nextOid = 1
    /\ up = TRUE
    /\ adminOps = 0
    /\ faults = 0
    /\ raises = 0
    /\ stops = 0
    /\ terminalWritten = [i \in RequestIds |-> FALSE]
    /\ handlerCalled = [i \in RequestIds |-> FALSE]
    /\ closed = FALSE
    /\ admin = Idle
    /\ response = NoResponse

InitWorker == InitEdge /\ InitCore

InitNoRetryArgs ==
    /\ sr_error = <<>>
    /\ sr_count = 0
    /\ sr_done = FALSE
    /\ sr_result = FALSE
    /\ args = <<>>
    /\ rets = <<>>

\* the gateway has published one envelope (kafka_producer.py): a job with a
\* fresh request id, or a knowledge-base delete, which carries no request id
Init ==
    /\ InitWorker
    /\ InitNoRetryArgs
    /\ \/ \E id \in Ids, topic \in PrimaryTopics :
            bus = SetToBag({Envelope(topic, id, JobData)})
       \/ bus = SetToBag({publish_ragdata_delete(1)})

\* history bookkeeping of a write to the result channel
NoteWrite(res) ==
    terminalWritten' = [i \in RequestIds |->
        terminalWritten[i] \/ (res[i] # result[i] /\ IsTerminal(res[i]))]

(***************************************************************************)
(* Worker (orchestrator/app/services/kafka_consumer.py).                   *)
(***************************************************************************)
\* _consume_loop: async for msg in consumer: create_task(...)
Consume(e) ==
    /\ Yielded
    /\ up
    /\ BagIn(e, bus)
    /\ BagCardinality(tasks) < MaxTasks
    /\ tasks' = tasks (+) SetToBag({NewTask(e)})
    /\ bus' = bus (-) SetToBag({e})
    /\ UNCHANGED <<permits, result, dlq, nextOid, faults, raises,
                   terminalWritten, handlerCalled>>
    /\ UNCHANGED <<envVars, srVars, edgeVars, response>>

\* the try block up to its first await, by original topic
Route(task) ==
    IF task.original_topic \in {KAFKA_CHAT_TOPIC, KAFKA_FILE_TOPIC}
        THEN [task EXCEPT !.pc = "handler", !.calls = task.msg.calls + 1]
    ELSE IF task.original_topic = RAGDATA_TOPIC
        THEN IF Get(extract_retry_info(task.msg.value).original_data,
                    "action", "") = "delete"
             THEN IF "file_id" \in DOMAIN task.msg.value
                  THEN [task EXCEPT !.pc = "deleting"]
                  ELSE [task EXCEPT !.pc = "done"]
             ELSE [task EXCEPT !.pc = "handler", !.calls = task.msg.calls + 1]
    ELSE [task EXCEPT !.pc = "done"]

NoteHandler(task) ==
    handlerCalled' = [handlerCalled EXCEPT ![Rid(task)] =
                          @ \/ task.pc = "handler"]

\* _process_message lines 96-119, entered once the semaphore is acquired
process_message_begin(task) ==
    LET x == extract_retry_info(task.msg.value)
    IN IF task.msg.topic = KAFKA_RETRY_TOPIC
       THEN IF x.present
            THEN [task EXCEPT
                     !.original_topic =
                         Get(x.retry_info, "original_topic", "unknown"),
                     !.retry_count = Get(x.retry_info, "retry_count", 1),
                     !.pc = "backoff"]
            ELSE [task EXCEPT !.pc = "done"]
       ELSE Route([task EXCEPT !.original_topic = task.msg.topic,
                               !.retry_count = 0])

\* a worker that gives its permit back for the time of the backoff wait
Acquire_not_held_in_backoff(k) ==
    /\ Yielded
    /\ k.pc = "queued"
    /\ permits > 0
    /\ permits' = IF process_message_begin(k).pc = "backoff"
                  THEN permits ELSE permits - 1
    /\ Step(k, process_message_begin(k))
    /\ NoteHandler(process_message_begin(k))
    /\ UNCHANGED <<bus, result, dlq, nextOid, faults, raises, terminalWritten>>
    /\ UNCHANGED <<envVars, srVars, edgeVars, response>>

\* _process_with_semaphore: async with _semaphore
Acquire(k) ==
    /\ Yielded
    /\ k.pc = "queued"
    /\ permits > 0
    /\ permits' = permits - 1
    /\ Step(k, process_message_begin(k))
    /\ NoteHandler(process_message_begin(k))
    /\ UNCHANGED <<bus, result, dlq, nextOid, faults, raises, terminalWritten>>
    /\ UNCHANGED <<envVars, srVars, edgeVars, response>>

\* wait_for_backoff returns
BackoffDone(k) ==
    /\ Yielded
    /\ k.pc = "backoff"
    /\ Step(k, Route(k))
    /\ NoteHandler(Route(k))
    /\ UNCHANGED <<bus, permits, result, dlq, nextOid, faults, raises,
                   terminalWritten>>
    /\ UNCHANGED <<envVars, srVars, edgeVars, response>>

\* the except block with the else branch writing the error record at once
except_begin_skips_dlq(task, e) ==
    [task EXCEPT !.err = e,
                 !.pc = IF should_retry(e, task.retry_count)
                        THEN "publish" ELSE "set_error"]

\* except Exception as e: ... up to the first await of the except block
except_begin(task, e) ==
    [task EXCEPT !.err = e,
                 !.pc = IF should_retry(e, task.retry_count)
                        THEN "publish" ELSE "dlq_find"]

\* chat handler, step 4: stream_update(request_id, "", finished=0)
ChatStreamStart(k) ==
    /\ Yielded
    /\ k.pc = "handler"
    /\ k.original_topic = KAFKA_CHAT_TOPIC
    /\ result' = stream_update(result, Rid(k), 0, 0)
    /\ Step(k, [k EXCEPT !.pc = "streaming",
                         !.writes = Append(@, result'[Rid(k)])])
    /\ NoteWrite(result')
    /\ UNCHANGED <<bus, permits, dlq, nextOid, faults, raises, handlerCalled>>
    /\ UNCHANGED <<envVars, srVars, edgeVars, response>>

\* a loop body that flushes before it accumulates the chunk
ChatChunk_flush_first(k) ==
    /\ Yielded
    /\ k.pc = "streaming"
    /\ LET n == k.chunk_count + 1
           flush == n % FLUSH_INTERVAL = 0
       IN /\ result' = IF flush
                       THEN stream_update(result, Rid(k), n - 1, 0)
                       ELSE result
          /\ Step(k, [k EXCEPT !.chunk_count = n,
                               !.writes = IF flush
                                          THEN Append(@, result'[Rid(k)])
                                          ELSE @])
    /\ NoteWrite(result')
    /\ UNCHANGED <<bus, permits, dlq, nextOid, faults, raises, handlerCalled>>
    /\ UNCHANGED <<envVars, srVars, edgeVars, response>>

\* chat handler: one chunk of the stream; reply is the number of chunks
\* accumulated, which stands for their concatenation
ChatChunk(k) ==
    /\ Yielded
    /\ k.pc = "streaming"
    /\ LET n == k.chunk_count + 1
           flush == n % FLUSH_INTERVAL = 0
       IN /\ result' = IF flush
                       THEN stream_update(result, Rid(k), n, 0)
                       ELSE result
          /\ Step(k, [k EXCEPT !.chunk_count = n,
                               !.writes = IF flush
                                          THEN Append(@, result'[Rid(k)])
                                          ELSE @])
    /\ NoteWrite(result')
    /\ UNCHANGED <<bus, permits, dlq, nextOid, faults, raises, handlerCalled>>
    /\ UNCHANGED <<envVars, srVars, edgeVars, response>>

\* the error of a send_and_wait that failed
ErrEmit == <<"K", "a", "f", "k", "a", "T", "i", "m", "e", "o", "u", "t",
             "E", "r", "r", "o", "r">>

\* the handler of the task emits an analytics event as it ends: the chat
\* handler at the end of a run that succeeded, the file handler in its
\* finally block
Emits(task, success) ==
    \/ task.pc = "handler" /\ task.original_topic = KAFKA_FILE_TOPIC
    \/ task.pc = "streaming" /\ success

\* the topics of the analytics bus
KAFKAFLOW_EVENTS_TOPIC == "chatbot.events"
KAFKAFLOW_LLM_TOPIC == "llm.calls"
KAFKAFLOW_FILE_TOPIC == "file.processing"

\* the record emit_llm_event / emit_file_event sends
AnalyticsEvent(task, success) ==
    LET file == task.original_topic = KAFKA_FILE_TOPIC
    IN [topic |-> IF file THEN KAFKAFLOW_FILE_TOPIC ELSE KAFKAFLOW_LLM_TOPIC,
        value |-> [event_type |-> IF file THEN "FILE_PROCESSED"
                                  ELSE "LLM_RESPONSE",
                   conversation_id |->
                       Get(task.msg.value, "conversation_id", 0),
                   success |-> success]]

\* an emission whose failure reaches the handler
emit_event_propagates(task, success, delivered) ==
    IF ~Emits(task, success) \/ emitter = "none"
    THEN [flow |-> flow, raised |-> FALSE]
    ELSE IF emitter = "started" /\ delivered
    THEN [flow |-> flow (+) SetToBag({AnalyticsEvent(task, success)}),
          raised |-> FALSE]
    ELSE [flow |-> flow, raised |-> TRUE]

\* emit_llm_event / emit_file_event inside the try/except of the handler:
\* nothing when producer is None; send_and_wait on a producer that never
\* started or could not deliver raises, and the exception is printed
emit_event(task, success, delivered) ==
    IF ~Emits(task, success) \/ emitter = "none"
    THEN [flow |-> flow, raised |-> FALSE]
    ELSE IF emitter = "started" /\ delivered
    THEN [flow |-> flow (+) SetToBag({AnalyticsEvent(task, success)}),
          raised |-> FALSE]
    ELSE [flow |-> flow, raised |-> FALSE]

\* db.conversations.update_one({"_id": conversation_id}, {"$push":
\* {"messages": assistant_message}}): a filter that matches no document
\* changes nothing
save_assistant_message(convs, conversation_id, ai_reply) ==
    {IF c.id = conversation_id
     THEN [c EXCEPT !.messages =
              Append(@, [role |-> "assistant", content |-> ai_reply])]
     ELSE c : c \in convs}

\* handle_chat_request / handle_file_request / handle_ragdata_request return;
\* the chat handler has saved its reply to the conversation by then
HandlerReturn(k) ==
    /\ Yielded
    /\ \/ k.pc = "streaming"
       \/ k.pc = "handler" /\ k.original_topic # KAFKA_CHAT_TOPIC
    /\ conversations' =
           IF k.original_topic = KAFKA_CHAT_TOPIC
           THEN save_assistant_message(conversations,
                    Get(extract_retry_info(k.msg.value).original_data,
                        "conversation_id", 0),
                    k.chunk_count)
           ELSE conversations
    /\ \E delivered \in BOOLEAN :
          LET emitted == emit_event(k, TRUE, delivered)
          IN /\ flow' = emitted.flow
             /\ Step(k, IF emitted.raised
                        THEN except_begin([k EXCEPT !.handler_raised = TRUE],
                                          ErrEmit)
                        ELSE [k EXCEPT !.pc = "returned"])
    /\ UNCHANGED <<bus, permits, result, dlq, nextOid, faults, raises,
                   terminalWritten, handlerCalled>>
    /\ UNCHANGED <<emitter, analytics_events, analytics_metrics>>
    /\ UNCHANGED <<envVars, srVars, response>>
    /\ UNCHANGED <<ip_messages, ratelimit, now, blacklist, blacklist_key,
                   poll, checks, headers>>

\* the handler (or delete_ragdata_by_file) raises e
HandlerRaise(k, e) ==
    /\ Yielded
    /\ k.pc \in {"handler", "streaming", "deleting"}
    /\ raises' = raises + 1
    /\ \E delivered \in BOOLEAN :
          LET emitted == emit_event(k, FALSE, delivered)
          IN /\ flow' = emitted.flow
             /\ Step(k, except_begin([k EXCEPT !.handler_raised = TRUE],
                                     IF emitted.raised THEN ErrEmit ELSE e))
    /\ UNCHANGED <<bus, permits, result, dlq, nextOid, faults,
                   terminalWritten, handlerCalled>>
    /\ UNCHANGED <<emitter, analytics_events, analytics_metrics>>
    /\ UNCHANGED <<envVars, srVars, gwVars, response>>

ResultType(topic) ==
    IF topic = KAFKA_CHAT_TOPIC THEN "chat"
    ELSE IF topic = KAFKA_FILE_TOPIC THEN "file" ELSE "ragdata"

\* set_result(request_id, {"status": "completed", "type": ..., **result})
WriteResult(k) ==
    /\ Yielded
    /\ k.pc = "returned"
    /\ result' = set_result(result, Rid(k),
                    [Blank EXCEPT !.status = "completed",
                                  !.type = ResultType(k.original_topic),
                                  !.reply = k.chunk_count])
    /\ Step(k, [k EXCEPT !.pc = "done",
                         !.writes = Append(@, result'[Rid(k)])])
    /\ NoteWrite(result')
    /\ UNCHANGED <<bus, permits, dlq, nextOid, faults, raises, handlerCalled>>
    /\ UNCHANGED <<envVars, srVars, edgeVars, response>>

\* set_result of the try block raises e: caught by the same except
WriteResultRaise(k, e) ==
    /\ Yielded
    /\ k.pc = "returned"
    /\ faults < MaxFaults
    /\ faults' = faults + 1
    /\ Step(k, except_begin(k, e))
    /\ UNCHANGED <<bus, permits, result, dlq, nextOid, raises,
                   terminalWritten, handlerCalled>>
    /\ UNCHANGED <<envVars, srVars, edgeVars, response>>

\* delete_ragdata_by_file returns; return
DeleteDone(k) ==
    /\ Yielded
    /\ k.pc = "deleting"
    /\ Step(k, [k EXCEPT !.pc = "done"])
    /\ UNCHANGED <<bus, permits, result, dlq, nextOid, faults, raises,
                   terminalWritten, handlerCalled>>
    /\ UNCHANGED <<envVars, srVars, edgeVars, response>>

\* retry_producer.publish_to_retry_queue: send_and_wait(KAFKA_RETRY_TOPIC, data)
publish_to_retry_queue(b, data, calls) ==
    b (+) SetToBag({[topic |-> KAFKA_RETRY_TOPIC, value |-> data, calls |-> calls]})

\* the retry envelope task k builds (lines 165-171)
retry_payload(k) ==
    Put(create_retry_payload(extract_retry_info(k.msg.value).original_data,
                             k.original_topic, k.err, k.retry_count),
        "request_id", Rid(k))

PublishRetry(k) ==
    /\ Yielded
    /\ k.pc = "publish"
    /\ bus' = publish_to_retry_queue(bus, retry_payload(k), k.calls)
    /\ Step(k, [k EXCEPT !.pc = "set_retrying", !.did = @ \cup {"publish"}])
    /\ UNCHANGED <<permits, result, dlq, nextOid, faults, raises,
                   terminalWritten, handlerCalled>>
    /\ UNCHANGED <<envVars, srVars, edgeVars, response>>

\* the document of the retrying write (lines 176-181)
retrying_doc(k) ==
    [Blank EXCEPT !.status = "retrying",
                  !.retry_count = k.retry_count + 1,
                  !.max_retry = MAX_RETRY_COUNT,
                  !.error = Take(k.err, ERROR_PREVIEW)]

\* set_result(request_id, {"status": "retrying", ...})
SetRetrying(k) ==
    /\ Yielded
    /\ k.pc = "set_retrying"
    /\ result' = set_result(result, Rid(k), retrying_doc(k))
    /\ Step(k, [k EXCEPT !.pc = "done", !.did = @ \cup {"retrying"}])
    /\ NoteWrite(result')
    /\ UNCHANGED <<bus, permits, dlq, nextOid, faults, raises, handlerCalled>>
    /\ UNCHANGED <<envVars, srVars, edgeVars, response>>

\* save_to_dlq: existing = await find_one({"request_id": request_id})
DlqFind(k) ==
    /\ Yielded
    /\ k.pc = "dlq_find"
    /\ Step(k, [k EXCEPT !.pc = "dlq_write",
                         !.existing = (Matching(dlq, Rid(k)) # {})])
    /\ UNCHANGED <<bus, permits, result, dlq, nextOid, faults, raises,
                   terminalWritten, handlerCalled>>
    /\ UNCHANGED <<envVars, srVars, edgeVars, response>>

\* save_to_dlq: await update_one(...) or await insert_one(...)
DlqWrite(k) ==
    /\ Yielded
    /\ k.pc = "dlq_write"
    /\ IF k.existing
       THEN /\ dlq' = dlq_update(dlq, Rid(k), k.err, k.retry_count)
            /\ nextOid' = nextOid
       ELSE /\ nextOid <= MaxDlq
            /\ dlq' = dlq_insert(dlq, nextOid, Rid(k), k.original_topic,
                                 extract_retry_info(k.msg.value).original_data,
                                 k.err, k.retry_count)
            /\ nextOid' = nextOid + 1
    /\ Step(k, [k EXCEPT !.pc = "set_error",
                         !.did = IF dlq' # dlq THEN @ \cup {"dlq"} ELSE @])
    /\ UNCHANGED <<bus, permits, result, faults, raises,
                   terminalWritten, handlerCalled>>
    /\ UNCHANGED <<envVars, srVars, edgeVars, response>>

MaxRetriesPrefix ==
    <<"M", "a", "x", " ", "r", "e", "t", "r", "i", "e", "s", " ", "(">>
        \o Str(MAX_RETRY_COUNT)
        \o <<")", " ", "e", "x", "c", "e", "e", "d", "e", "d", ".", " ">>

\* error_msg with the bound tested by > instead of >=
final_error_late(error_str, retry_count) ==
    IF retry_count > MAX_RETRY_COUNT THEN MaxRetriesPrefix \o error_str
    ELSE error_str

\* error_msg of the else branch
final_error(error_str, retry_count) ==
    IF retry_count >= MAX_RETRY_COUNT THEN MaxRetriesPrefix \o error_str
    ELSE error_str

\* set_error(request_id, error_msg)
SetError(k) ==
    /\ Yielded
    /\ k.pc = "set_error"
    /\ result' = set_error(result, Rid(k),
                           final_error(k.err, k.retry_count))
    /\ Step(k, [k EXCEPT !.pc = "done", !.did = @ \cup {"error"}])
    /\ NoteWrite(result')
    /\ UNCHANGED <<bus, permits, dlq, nextOid, faults, raises, handlerCalled>>
    /\ UNCHANGED <<envVars, srVars, edgeVars, response>>

\* an awaited call of the except block raises: nothing catches it, the
\* exception leaves _process_message
FailurePathRaise(k) ==
    /\ Yielded
    /\ k.pc \in FailurePcs
    /\ faults < MaxFaults
    /\ faults' = faults + 1
    /\ Step(k, [k EXCEPT !.pc = "done", !.raised_out = TRUE])
    /\ UNCHANGED <<bus, permits, result, dlq, nextOid, raises,
                   terminalWritten, handlerCalled>>
    /\ UNCHANGED <<envVars, srVars, edgeVars, response>>

\* a release that an exception leaving _process_message skips
Release_on_return_only(k) ==
    /\ k.pc = "done"
    /\ permits' = IF k.raised_out THEN permits ELSE permits + 1
    /\ tasks' = tasks (-) SetToBag({k})
    /\ UNCHANGED <<bus, result, dlq, nextOid, faults, raises,
                   terminalWritten, handlerCalled>>
    /\ UNCHANGED <<envVars, srVars, edgeVars, response>>

\* async with _semaphore: __aexit__, on return and on exception alike
Release(k) ==
    /\ k.pc = "done"
    /\ permits' = permits + 1
    /\ tasks' = tasks (-) SetToBag({k})
    /\ UNCHANGED <<bus, result, dlq, nextOid, faults, raises,
                   terminalWritten, handlerCalled>>
    /\ UNCHANGED <<envVars, srVars, edgeVars, response>>

(***************************************************************************)
(* Gateway poll (backend/app/routes/stream.py) and key expiry.             *)
(***************************************************************************)
\* redis_client.get_result: the document under result:<id>, or None
get_result(store, id) == store[id]

\* a delete_result that leaves the key in place
delete_result_keeps(store, id) == store

\* redis_client.delete_result
delete_result(store, id) == [store EXCEPT ![id] = Absent]

\* the response model: the fields it declares, with their defaults (None is
\* 0 for reply and <<>> for error); every other key of the document is dropped
StreamResponse(doc) ==
    [status |-> doc.status,
     reply |-> Get(doc, "reply", 0),
     finished |-> Get(doc, "finished", 0),
     error |-> Get(doc, "error", <<>>)]

\* what GET /api/stream answers for the document read
poll_response(doc) ==
    IF doc = Absent THEN StreamResponse([status |-> "processing"])
    ELSE StreamResponse(doc)

\* a 200 answer of endpoint ep for id
Ok(ep, id, body) == [endpoint |-> ep, id |-> id, code |-> 200, body |-> body]

\* HTTPException(status_code=404)
NotFound(ep, id) == [endpoint |-> ep, id |-> id, code |-> 404, body |-> <<>>]

\* GET /api/stream?request_id=id
Poll(id) ==
    LET doc == get_result(result, id)
    IN /\ result' = IF doc # Absent /\ doc.finished = 1
                     THEN delete_result(result, id)
                     ELSE result
       /\ response' = Ok("stream", id, poll_response(doc))
       /\ UNCHANGED <<bus, tasks, permits, dlq, nextOid, faults, raises,
                      terminalWritten, handlerCalled>>
       /\ UNCHANGED <<envVars, srVars, edgeVars>>

\* GET /api/stream?request_id=id up to "await delete_result": the read, and
\* the answer when there is nothing to delete
poll_result_get(id) ==
    LET doc == get_result(result, id)
    IN /\ ~poll.pending
       /\ IF doc # Absent /\ doc.finished = 1
          THEN /\ poll' = [pending |-> TRUE, id |-> id, doc |-> doc]
               /\ UNCHANGED response
          ELSE /\ response' = Ok("stream", id, poll_response(doc))
               /\ UNCHANGED poll
       /\ UNCHANGED <<bus, tasks, permits, result, dlq, nextOid, faults,
                      raises, terminalWritten, handlerCalled>>
       /\ UNCHANGED <<envVars, srVars, flowVars, conversations, ip_messages,
                      ratelimit, now, blacklist, blacklist_key, checks,
                      headers>>

\* the rest of the call: delete_result(request_id) and the answer
poll_result_delete ==
    /\ poll.pending
    /\ result' = delete_result(result, poll.id)
    /\ response' = Ok("stream", poll.id, poll_response(poll.doc))
    /\ poll' = NoPoll
    /\ UNCHANGED <<bus, tasks, permits, dlq, nextOid, faults, raises,
                   terminalWritten, handlerCalled>>
    /\ UNCHANGED <<envVars, srVars, flowVars, conversations, ip_messages,
                   ratelimit, now, blacklist, blacklist_key, checks, headers>>

\* setex TTL (REDIS_RESULT_TTL) runs out
Expire(id) ==
    /\ result[id] # Absent
    /\ result' = [result EXCEPT ![id] = Absent]
    /\ UNCHANGED <<bus, tasks, permits, dlq, nextOid, faults, raises,
                   terminalWritten, handlerCalled>>
    /\ UNCHANGED <<envVars, srVars, edgeVars, response>>

(***************************************************************************)
(* DLQ admin endpoints (orchestrator/app/main.py).                         *)
(***************************************************************************)
\* a republish that goes to the retry topic
republish_to_retry_topic(b, topic, data) ==
    b (+) SetToBag({[topic |-> KAFKA_RETRY_TOPIC, value |-> data, calls |-> 0]})

\* retry_producer.republish_to_original_topic
republish_to_original_topic(b, topic, data) ==
    b (+) SetToBag({[topic |-> topic, value |-> data, calls |-> 0]})

\* the _id values a request may name: the ones in use and one that is not
DlqIds == 1..(MaxDlq + 1)

\* get_dlq_item_detail answers None
NoItem == [oid |-> 0]

\* dlq_handler.get_dlq_item_detail
get_dlq_item_detail(coll, dlq_id) ==
    IF \E d \in coll : d.oid = dlq_id
    THEN CHOOSE d \in coll : d.oid = dlq_id
    ELSE NoItem

\* message_data["request_id"] = item["request_id"]
retry_message(item) == Put(item.message_data, "request_id", item.request_id)

\* POST /api/dlq/items/{dlq_id}/retry, up to the republish
retry_dlq_item(dlq_id) ==
    /\ admin = Idle
    /\ adminOps < MaxAdminOps
    /\ adminOps' = adminOps + 1
    /\ LET item == get_dlq_item_detail(dlq, dlq_id)
       IN IF item = NoItem
          THEN /\ response' = NotFound("dlq_retry", dlq_id)
               /\ UNCHANGED <<bus, admin>>
          ELSE /\ bus' = republish_to_original_topic(bus, item.original_topic,
                                                     retry_message(item))
               /\ admin' = [pc |-> "mark", id |-> dlq_id, item |-> item]
               /\ UNCHANGED response
    /\ UNCHANGED <<tasks, permits, result, dlq, nextOid, faults, raises,
                   terminalWritten, handlerCalled>>
    /\ UNCHANGED <<up, stops, closed>> /\ UNCHANGED <<srVars, edgeVars>>

\* retry_dlq_item from mark_dlq_retried to its return
retry_dlq_item_mark ==
    /\ admin.pc = "mark"
    /\ dlq' = mark_dlq_retried(dlq, admin.id)
    /\ response' = Ok("dlq_retry", admin.id,
                      [request_id |-> admin.item.request_id,
                       topic |-> admin.item.original_topic])
    /\ admin' = Idle
    /\ UNCHANGED <<bus, tasks, permits, result, nextOid, faults, raises,
                   terminalWritten, handlerCalled>>
    /\ UNCHANGED <<up, stops, adminOps, closed>> /\ UNCHANGED <<srVars, edgeVars>>

\* POST /api/dlq/items/{dlq_id}/resolve
resolve_dlq_item(dlq_id) ==
    /\ adminOps < MaxAdminOps
    /\ adminOps' = adminOps + 1
    /\ LET item == get_dlq_item_detail(dlq, dlq_id)
       IN IF item = NoItem
          THEN /\ response' = NotFound("dlq_resolve", dlq_id)
               /\ UNCHANGED dlq
          ELSE /\ dlq' = mark_dlq_resolved(dlq, dlq_id)
               /\ response' = Ok("dlq_resolve", dlq_id,
                                 [request_id |-> item.request_id])
    /\ UNCHANGED <<bus, tasks, permits, result, nextOid, faults, raises,
                   terminalWritten, handlerCalled>>
    /\ UNCHANGED <<up, stops, closed, admin>> /\ UNCHANGED <<srVars, edgeVars>>

\* DELETE /api/dlq/items/{dlq_id}
remove_dlq_item(dlq_id) ==
    /\ adminOps < MaxAdminOps
    /\ adminOps' = adminOps + 1
    /\ dlq' = delete_dlq_item(dlq, dlq_id)
    /\ response' = IF dlq' # dlq
                   THEN Ok("dlq_delete", dlq_id, <<>>)
                   ELSE NotFound("dlq_delete", dlq_id)
    /\ UNCHANGED <<bus, tasks, permits, result, nextOid, faults, raises,
                   terminalWritten, handlerCalled>>
    /\ UNCHANGED <<up, stops, closed, admin>> /\ UNCHANGED <<srVars, edgeVars>>

RECURSIVE RetryAll(_, _)
\* the loop of retry_all_pending over the items S: bus and collection after
RetryAll(S, st) ==
    IF S = {} THEN st
    ELSE LET d == CHOOSE x \in S : \A o \in S : x.oid <= o.oid
             detail == get_dlq_item_detail(st.coll, d.oid)
         IN RetryAll(S \ {d},
                IF detail = NoItem THEN st
                ELSE [bus |-> republish_to_original_topic(
                                  st.bus, detail.original_topic,
                                  retry_message(detail)),
                      coll |-> mark_dlq_retried(st.coll, d.oid),
                      retried |-> st.retried + 1])

\* POST /api/dlq/retry-all, run without interruption
retry_all_pending ==
    /\ adminOps < MaxAdminOps
    /\ adminOps' = adminOps + 1
    /\ LET items == {d \in dlq : d.status = "pending"}
           st == RetryAll(items, [bus |-> bus, coll |-> dlq, retried |-> 0])
       IN /\ bus' = st.bus
          /\ dlq' = st.coll
          /\ response' = Ok("dlq_retry_all", 0,
                            [total |-> Cardinality(items),
                             retried |-> st.retried])
    /\ UNCHANGED <<tasks, permits, result, nextOid, faults, raises,
                   terminalWritten, handlerCalled>>
    /\ UNCHANGED <<up, stops, closed, admin>> /\ UNCHANGED <<srVars, edgeVars>>

\* gateway POST /api/admin/dlq/retry with task_ids = [dlq_id]: the same
\* collection; nothing is published
retry_dlq_tasks(dlq_id) ==
    /\ adminOps < MaxAdminOps
    /\ adminOps' = adminOps + 1
    /\ LET task == get_dlq_item_detail(dlq, dlq_id)
       IN IF task = NoItem
          THEN /\ response' = Ok("admin_dlq_retry", dlq_id, [retried |-> 0])
               /\ UNCHANGED dlq
          ELSE /\ dlq' = {IF d.oid = dlq_id
                          THEN [d EXCEPT !.status = "pending_retry"]
                          ELSE d : d \in dlq}
               /\ response' = Ok("admin_dlq_retry", dlq_id, [retried |-> 1])
    /\ UNCHANGED <<bus, tasks, permits, result, nextOid, faults, raises,
                   terminalWritten, handlerCalled>>
    /\ UNCHANGED <<up, stops, closed, admin>> /\ UNCHANGED <<srVars, edgeVars>>

(***************************************************************************)
(* Process stop and restart; offsets (enable_auto_commit=True).            *)
(***************************************************************************)
RECURSIVE CommitAll(_)
\* the tasks S with their offsets committed
CommitAll(S) ==
    IF S = {} THEN EmptyBag
    ELSE LET k == CHOOSE x \in S : TRUE
         IN ([k EXCEPT !.committed = TRUE] :> CopiesIn(k, tasks))
                (+) CommitAll(S \ {k})

\* the consumer's periodic auto-commit: the position of every fetched message
AutoCommit ==
    /\ up
    /\ \E k \in Tasks : ~k.committed
    /\ tasks' = CommitAll(Tasks)
    /\ UNCHANGED <<bus, permits, result, dlq, nextOid, faults, raises,
                   terminalWritten, handlerCalled>>
    /\ UNCHANGED <<envVars, srVars, edgeVars, response>>

RECURSIVE Messages(_)
\* the messages of the tasks S
Messages(S) ==
    IF S = {} THEN EmptyBag
    ELSE LET k == CHOOSE x \in S : TRUE
         IN (k.msg :> CopiesIn(k, tasks)) (+) Messages(S \ {k})

\* messages the group fetches again after a restart: fetched, offset not
\* committed
Redelivered == Messages({k \in Tasks : ~k.committed})

\* the process dies: every task is gone with it
Stop ==
    /\ up
    /\ stops < MaxStops
    /\ stops' = stops + 1
    /\ up' = FALSE
    /\ bus' = bus (+) Redelivered
    /\ tasks' = EmptyBag
    /\ UNCHANGED <<permits, result, dlq, nextOid, adminOps, faults,
                   raises, terminalWritten, handlerCalled, closed, admin>>
    /\ UNCHANGED <<srVars, edgeVars, response>>

\* lifespan after yield: stop_consumer cancels _consumer_task, stops the
\* consumer and the retry producer; the event emitter and the store clients
\* are closed next. Nothing awaits the tasks made by asyncio.create_task in
\* _consume_loop, so the ones still running end with the event loop. The
\* consumer's stop may or may not commit the fetched positions.
Shutdown ==
    /\ up
    /\ stops < MaxStops
    /\ stops' = stops + 1
    /\ up' = FALSE
    /\ closed' = TRUE
    /\ bus' \in {bus, bus (+) Redelivered}
    /\ tasks' = EmptyBag
    /\ UNCHANGED <<permits, result, dlq, nextOid, adminOps, faults,
                   raises, terminalWritten, handlerCalled, admin>>
    /\ UNCHANGED <<srVars, edgeVars, response>>

\* start_consumer: _semaphore = asyncio.Semaphore(settings.MAX_WORKERS)
Restart ==
    /\ ~up
    /\ up' = TRUE
    /\ permits' = MAX_WORKERS
    /\ closed' = FALSE
    /\ UNCHANGED <<bus, tasks, result, dlq, nextOid, adminOps,
                   faults, raises, stops, terminalWritten, handlerCalled,
                   admin>>
    /\ UNCHANGED <<srVars, edgeVars, response>>

(***************************************************************************)
(* Specifications.                                                         *)
(***************************************************************************)
\* the steps of the worker when no call raises
WorkerStep ==
    \/ \E e \in BagToSet(bus) : Consume(e)
    \/ \E k \in Tasks : Acquire(k)
    \/ \E k \in Tasks : BackoffDone(k)
    \/ \E k \in Tasks : ChatStreamStart(k)
    \/ \E k \in Tasks : HandlerReturn(k)
    \/ \E k \in Tasks : WriteResult(k)
    \/ \E k \in Tasks : DeleteDone(k)
    \/ \E k \in Tasks : PublishRetry(k)
    \/ \E k \in Tasks : SetRetrying(k)
    \/ \E k \in Tasks : DlqFind(k)
    \/ \E k \in Tasks : DlqWrite(k)
    \/ \E k \in Tasks : SetError(k)
    \/ \E k \in Tasks : Release(k)

\* a client polls
Gateway == \E id \in RequestIds : Poll(id)

\* a result key runs out of time
Expiry == \E id \in RequestIds : Expire(id)

\* a store or bus call raises
Faulty ==
    \/ \E k \in Tasks, e \in HandlerErrors : WriteResultRaise(k, e)
    \/ \E k \in Tasks : FailurePathRaise(k)

\* a stream of at most n chunks
Streaming(n) == \E k \in Tasks : k.chunk_count < n /\ ChatChunk(k)

\* at most n handler failures in the run
Failing(n) == \E k \in Tasks, e \in HandlerErrors : raises < n /\ HandlerRaise(k, e)

\* one submission followed through its whole retry chain
Next ==
    \/ WorkerStep
    \/ Streaming(MaxChunks)
    \/ Gateway
    \/ Expiry
    \/ Faulty
    \/ Failing(MaxRaises)

Spec == Init /\ [][Next]_vars

\* the same with DLQ administration
NextAdmin ==
    \/ WorkerStep
    \/ Streaming(MaxChunks)
    \/ Failing(MaxAdminRaises)
    \/ \E id \in DlqIds : retry_dlq_item(id)
    \/ retry_dlq_item_mark
    \/ \E id \in DlqIds : resolve_dlq_item(id)
    \/ \E id \in DlqIds : remove_dlq_item(id)
    \/ retry_all_pending
    \/ \E id \in DlqIds : retry_dlq_tasks(id)

SpecAdmin == Init /\ [][NextAdmin]_vars

\* process stops, with store and bus calls that succeed
NextStop ==
    \/ WorkerStep
    \/ Streaming(MaxChunks)
    \/ Expiry
    \/ Failing(MaxStopRaises)
    \/ AutoCommit
    \/ Stop
    \/ Shutdown
    \/ Restart

SpecStop == Init /\ [][NextStop]_vars

\* should_retry on its own
InitRetry ==
    /\ InitWorker
    /\ bus = EmptyBag
    /\ sr_error \in ErrorMessages
    /\ sr_count \in 0..MaxRetryArg
    /\ sr_done = FALSE
    /\ sr_result = FALSE
    /\ args = <<>>
    /\ rets = <<>>

ApplyShouldRetry ==
    /\ ~sr_done
    /\ sr_done' = TRUE
    /\ sr_result' = should_retry(sr_error, sr_count)
    /\ UNCHANGED <<sr_error, sr_count>>
    /\ UNCHANGED <<bus, tasks, permits, result, dlq, nextOid, up,
                   adminOps, faults, raises, stops, terminalWritten,
                   handlerCalled, closed, admin, response, args, rets,
                   edgeVars>>

SpecRetry == InitRetry /\ [][ApplyShouldRetry]_vars

\* save_to_dlq applied twice for one request id, on a collection that holds
\* nothing or one record of another request
InitDlq ==
    /\ InitEdge
    /\ bus = EmptyBag
    /\ tasks = EmptyBag
    /\ permits = MAX_WORKERS
    /\ result = [i \in RequestIds |-> Absent]
    /\ up = TRUE
    /\ adminOps = 0
    /\ faults = 0
    /\ raises = 0
    /\ stops = 0
    /\ terminalWritten = [i \in RequestIds |-> FALSE]
    /\ handlerCalled = [i \in RequestIds |-> FALSE]
    /\ closed = FALSE
    /\ admin = Idle
    /\ response = NoResponse
    /\ sr_error = <<>>
    /\ sr_count = 0
    /\ sr_done = FALSE
    /\ sr_result = FALSE
    /\ rets = <<>>
    /\ \E id \in RequestIds, topic \in PrimaryTopics,
          e1 \in HandlerErrors, e2 \in HandlerErrors,
          n1 \in 0..MaxRetryArg, n2 \in 0..MaxRetryArg,
          other \in BOOLEAN :
          args = [request_id |-> id,
                  original_topic |-> topic,
                  message_data |-> Put(JobData, "request_id", id),
                  calls |-> <<[error |-> e1, retry_count |-> n1],
                              [error |-> e2, retry_count |-> n2]>>,
                  before |-> IF other
                             THEN save_to_dlq({}, 1, CHOOSE o \in RequestIds : o # id,
                                              topic, JobData, e1, n1).coll
                             ELSE {}]
    /\ dlq = args.before
    /\ nextOid = Cardinality(dlq) + 1

ApplySaveToDlq ==
    /\ Len(rets) < Len(args.calls)
    /\ LET c == args.calls[Len(rets) + 1]
           r == save_to_dlq(dlq, nextOid, args.request_id, args.original_topic,
                            args.message_data, c.error, c.retry_count)
       IN /\ dlq' = r.coll
          /\ nextOid' = r.next
          /\ rets' = Append(rets, r.id)
    /\ UNCHANGED <<bus, tasks, permits, result, up, adminOps, faults, raises,
                   stops, terminalWritten, handlerCalled, closed, admin,
                   response, sr_error, sr_count, sr_done, sr_result, args,
                   edgeVars>>

SpecDlq == InitDlq /\ [][ApplySaveToDlq]_vars

\* the keys and values of the payloads the round trip is applied to; trace_id
\* is a field the worker does not know
PayloadKeys == {"request_id", "conversation_id", "trace_id"}
PayloadValues == {1, 2}
Payloads ==
    UNION {[K -> PayloadValues] : K \in SUBSET PayloadKeys}

\* create_retry_payload then extract_retry_info, applied to a payload without
\* a _retry field and then to what each round returns
InitPayload ==
    /\ InitWorker
    /\ bus = EmptyBag
    /\ sr_error = <<>>
    /\ sr_count = 0
    /\ sr_done = FALSE
    /\ sr_result = FALSE
    /\ rets = <<>>
    /\ \E d \in Payloads, topic \in PrimaryTopics, e \in HandlerErrors,
          n \in 0..MaxRetryArg :
          args = [d |-> d, topic |-> topic, err |-> e, n |-> n]

ApplyRetryRoundTrip ==
    /\ Len(rets) < MaxRounds
    /\ LET data == IF rets = <<>> THEN args.d
                   ELSE rets[Len(rets)].original_data
           count == IF rets = <<>> THEN args.n
                    ELSE rets[Len(rets)].retry_info.retry_count
       IN rets' = Append(rets,
                     extract_retry_info(
                         create_retry_payload(data, args.topic, args.err, count)))
    /\ UNCHANGED <<bus, tasks, permits, result, dlq, nextOid, up, adminOps,
                   faults, raises, stops, terminalWritten, handlerCalled,
                   closed, admin, response, sr_error, sr_count, sr_done,
                   sr_result, args, edgeVars>>

SpecPayload == InitPayload /\ [][ApplyRetryRoundTrip]_vars

\* everything but args and rets at rest: a function is applied on its own
InitAlone ==
    /\ InitWorker
    /\ bus = EmptyBag
    /\ sr_error = <<>>
    /\ sr_count = 0
    /\ sr_done = FALSE
    /\ sr_result = FALSE
    /\ rets = <<>>

\* what applying a function on its own leaves alone
AloneFrame ==
    UNCHANGED <<bus, tasks, permits, result, dlq, nextOid, up, adminOps,
                faults, raises, stops, terminalWritten, handlerCalled,
                closed, admin, response, sr_error, sr_count, sr_done,
                sr_result, args, edgeVars>>

Min(a, b) == IF a <= b THEN a ELSE b

\* a delay capped after the jitter is added, as the docstring has it
calculate_backoff_delay_capped_last(retry_count, jitter) ==
    Min(RETRY_BACKOFF_BASE * (RETRY_BACKOFF_MULTIPLIER ^ retry_count) + jitter,
        RETRY_BACKOFF_MAX)

\* retry_handler.calculate_backoff_delay; jitter is the value random.uniform
\* returned, in whole seconds
calculate_backoff_delay(retry_count, jitter) ==
    Min(RETRY_BACKOFF_BASE * (RETRY_BACKOFF_MULTIPLIER ^ retry_count),
        RETRY_BACKOFF_MAX) + jitter

\* calculate_backoff_delay applied to n and then to n + 1
InitBackoff ==
    /\ InitAlone
    /\ \E n \in 0..MaxBackoffArg, j1 \in 0..RETRY_JITTER_MAX,
          j2 \in 0..RETRY_JITTER_MAX :
          args = [n |-> n, jitter |-> <<j1, j2>>]

ApplyBackoff ==
    /\ Len(rets) < 2
    /\ rets' = Append(rets,
                   calculate_backoff_delay(args.n + Len(rets),
                                           args.jitter[Len(rets) + 1]))
    /\ AloneFrame

SpecBackoff == InitBackoff /\ [][ApplyBackoff]_vars

RECURSIVE Insert(_, _)
\* the sorted list s with x put in its place
Insert(s, x) ==
    IF s = <<>> THEN <<x>>
    ELSE IF x <= Head(s) THEN <<x>> \o s
    ELSE <<Head(s)>> \o Insert(Tail(s), x)

RECURSIVE sorted(_)
\* sorted(doc.get("samples", []))
sorted(s) == IF s = <<>> THEN <<>> ELSE Insert(sorted(Tail(s)), Head(s))

\* int(n * 0.50), int(n * 0.95), int(n * 0.99): the product is a float and
\* int truncates it; for every n up to 200000 the result is floor(n*X/100)
IntOfProduct(n, X) == (n * X) \div 100

\* a percentile taken by nearest rank: the sample at ceil(n*X/100) - 1
stats_nearest_rank(samples) ==
    LET n == Len(samples)
        at(X) == samples[(n * X + 99) \div 100]
    IN [p50 |-> at(50), p95 |-> at(95), p99 |-> at(99),
        min |-> samples[1], max |-> samples[n], count |-> n]

\* the stats dict calculate_statistics builds from the sorted samples (avg
\* left out); Python's samples[i] is samples[i + 1] here, samples[-1] is
\* samples[n]
stats(samples) ==
    LET n == Len(samples)
    IN [p50 |-> IF n > 0 THEN samples[IntOfProduct(n, 50) + 1] ELSE 0,
        p95 |-> IF n > 1 THEN samples[IntOfProduct(n, 95) + 1] ELSE samples[n],
        p99 |-> IF n > 2 THEN samples[IntOfProduct(n, 99) + 1] ELSE samples[n],
        min |-> samples[1],
        max |-> samples[n],
        count |-> n]

\* the latency_stats document calculate_statistics upserts for one
\* latency_samples document; none when there are no samples
calculate_statistics(doc_samples) ==
    LET samples == sorted(doc_samples)
    IN IF samples = <<>> THEN <<>> ELSE <<stats(samples)>>

\* the sample values, in milliseconds
SampleValues == {10, 20, 30, 40}

\* 10, 20, ..., 10 * n
Ramp(n) == [i \in 1..n |-> 10 * i]

\* the same, largest first
Reversed(s) == [i \in 1..Len(s) |-> s[Len(s) + 1 - i]]

\* calculate_statistics applied to one latency_samples document
InitStats ==
    /\ InitAlone
    /\ args \in [samples :
                    UNION {[1..n -> SampleValues] : n \in 0..3}
                    \cup {Ramp(n) : n \in 1..MaxSamples}
                    \cup {Reversed(Ramp(n)) : n \in 1..MaxSamples}]

ApplyStatistics ==
    /\ rets = <<>>
    /\ rets' = <<calculate_statistics(args.samples)>>
    /\ AloneFrame

SpecStats == InitStats /\ [][ApplyStatistics]_vars

\* chunk_text's defaults
chunk_size == 1000
overlap == 200

\* the separators chunk_text tries, in its order; "n" is the newline
Separators == << <<".", " ">>, <<".", "n">>, <<"n", "n">>, <<"n">>, <<" ">> >>

\* A text is its length and the offsets (0-based) of its characters that are
\* a period, a space or a newline; every other character is a letter.
char(text, p) == IF p \in DOMAIN text.marks THEN text.marks[p] ELSE "x"

\* sep stands at offset p of the text
SepAt(text, sep, p) == \A i \in 1..Len(sep) : char(text, p + i - 1) = sep[i]

\* text[from:to].rfind(sep): the last offset, relative to from, at which sep
\* lies whole inside the slice; -1 when there is none
rfind(text, from, to, sep) ==
    LET hits == {p \in DOMAIN text.marks :
                    /\ from <= p
                    /\ p + Len(sep) <= to
                    /\ SepAt(text, sep, p)}
    IN IF hits = {} THEN -1
       ELSE (CHOOSE p \in hits : \A q \in hits : q <= p) - from

RECURSIVE break_end(_, _, _, _)
\* the for loop over the separators: the end after the first separator whose
\* last occurrence in text[start:end] is past chunk_size // 2, else end
break_end(text, start, end, k) ==
    IF k > Len(Separators) THEN end
    ELSE LET last_sep == rfind(text, start, end, Separators[k])
         IN IF last_sep > chunk_size \div 2
            THEN start + last_sep + Len(Separators[k])
            ELSE break_end(text, start, end, k + 1)

\* text[start:end].strip() is not empty
HasContent(text, start, end) ==
    \E p \in start..(Min(end, text.len) - 1) : char(text, p) \notin {" ", "n"}

\* the next chunk starts where this one ended
next_start_no_overlap(end) == end

\* start = end - overlap
next_start(end) == end - overlap

RECURSIVE chunk_loop(_, _)
\* the while loop: the slices text[start:end] of the chunks appended from
\* start on (a slice's end is cut at the text's length, as slicing does)
chunk_loop(text, start) ==
    IF start >= text.len THEN <<>>
    ELSE LET window == start + chunk_size
             end == IF window < text.len
                    THEN break_end(text, start, window, 1)
                    ELSE window
             chunk == IF HasContent(text, start, end)
                      THEN << [start |-> start, end |-> Min(end, text.len)] >>
                      ELSE <<>>
         IN chunk \o chunk_loop(text, next_start(end))

\* the slices of the chunks chunk_text returns
chunk_text(text) ==
    IF text.len <= chunk_size
    THEN << [start |-> 0, end |-> text.len] >>
    ELSE chunk_loop(text, 0)

\* the lengths of the texts
TextLens == {900, 2400}

\* where a text may have one more period, space or newline
MarkOffsets == {300, 501, 502, 700, 701, 999, 1000, 1600}

\* a period at 1180 followed by a space
PeriodSpace == (1180 :> ".") @@ (1181 :> " ")

\* chunk_text applied to one text with a period+space at offset 1180 (when
\* it is that long) and at most two more marked characters
InitChunk ==
    /\ InitAlone
    /\ \E len \in TextLens, where \in SUBSET MarkOffsets :
          /\ Cardinality(where) <= 2
          /\ \E extra \in [where -> {".", " ", "n"}] :
                LET marks == extra @@ PeriodSpace
                IN args = [text |->
                    [len |-> len,
                     marks |-> [p \in {q \in DOMAIN marks : q < len} |-> marks[p]]]]

ApplyChunkText ==
    /\ rets = <<>>
    /\ rets' = <<chunk_text(args.text)>>
    /\ AloneFrame

SpecChunk == InitChunk /\ [][ApplyChunkText]_vars

\* the message handle_chat_request puts in error_msg for a rate-limit-like
\* failure of the stream
FRIENDLY_MESSAGE ==
    <<"M", "e", "s", "s", "a", "g", "e", " ", "t", "o", "o", " ",
      "l", "o", "n", "g", ".", " ", "P", "l", "e", "a", "s", "e",
      " ", "t", "r", "y", " ", "w", "i", "t", "h", " ", "a", " ",
      "s", "h", "o", "r", "t", "e", "r", " ", "m", "e", "s", "s",
      "a", "g", "e", " ", "o", "r", " ", "s", "m", "a", "l", "l",
      "e", "r", " ", "f", "i", "l", "e", ".">>

ErrRateLimit ==
    <<"r", "a", "t", "e", "_", "l", "i", "m", "i", "t", "_", "e",
      "x", "c", "e", "e", "d", "e", "d">>

ErrRateLimitUpper ==
    <<"R", "a", "t", "e", "_", "L", "i", "m", "i", "t", " ", "r",
      "e", "a", "c", "h", "e", "d">>

Err413 ==
    <<"E", "r", "r", "o", "r", " ", "c", "o", "d", "e", ":", " ",
      "4", "1", "3">>

Err413Big ==
    <<"4", "1", "3", " ", "R", "e", "q", "u", "e", "s", "t", " ",
      "t", "o", "o", " ", "l", "a", "r", "g", "e">>

Err429 ==
    <<"E", "r", "r", "o", "r", " ", "c", "o", "d", "e", ":", " ",
      "4", "2", "9">>

ErrOverloaded ==
    <<"4", "1", "3", " ", "o", "v", "e", "r", "l", "o", "a", "d",
      "e", "d">>

ErrBoom ==
    <<"b", "o", "o", "m">>

\* what the LLM client's stream may raise
StreamErrors ==
    {ErrRateLimit, ErrRateLimitUpper, Err413, Err413Big, Err429,
     ErrOverloaded, ErrBoom, ErrTransient}

\* "rate_limit" in str(e).lower() or "413" in str(e)
rate_limit_like(e) ==
    \/ Contains(Lower(e), <<"r", "a", "t", "e", "_", "l", "i", "m", "i", "t">>)
    \/ Contains(e, <<"4", "1", "3">>)

\* the except block of the streaming loop: error_msg is a local of the
\* handler, and the bare raise re-raises the exception that was caught
stream_failure(e) ==
    [error_msg |-> IF rate_limit_like(e) THEN FRIENDLY_MESSAGE ELSE e,
     raised |-> e]

\* one failure of the LLM stream, as the handler re-raises it and as the
\* worker's except block classifies what it catches
InitStreamFail ==
    /\ InitAlone
    /\ args \in [e : StreamErrors, retry_count : 0..MaxRetryArg]

ApplyStreamFail ==
    /\ rets = <<>>
    /\ LET failure == stream_failure(args.e)
       IN rets' = << [raised |-> failure.raised,
                      error_msg |-> failure.error_msg,
                      retried |-> should_retry(failure.raised,
                                               args.retry_count)] >>
    /\ AloneFrame

SpecStreamFail == InitStreamFail /\ [][ApplyStreamFail]_vars

\* {}
EmptyDict == [f \in {} |-> 0]

\* _retry dicts that lack original_topic, retry_count or both
PartialRetryInfo ==
    {EmptyDict, [retry_count |-> 2]}
    \cup {[original_topic |-> t] : t \in PrimaryTopics}

\* the payloads a message on the retry topic may carry
RetryData == {JobData, [action |-> "delete", file_id |-> 1]}

\* a record of the retry topic
RetryRecord(value) == [topic |-> KAFKA_RETRY_TOPIC, value |-> value, calls |-> 0]

\* the worker with one message on the retry topic that has no _retry key or
\* a _retry dict with keys missing
InitMalformed ==
    /\ InitWorker
    /\ InitNoRetryArgs
    /\ \E id \in Ids, data \in RetryData :
          LET value == Envelope(KAFKA_RETRY_TOPIC, id, data).value
          IN \/ bus = SetToBag({RetryRecord(value)})
             \/ \E retry_info \in PartialRetryInfo :
                   bus = SetToBag({RetryRecord(Put(value, "_retry", retry_info))})

NextMalformed ==
    \/ WorkerStep
    \/ Streaming(MaxChunks)
    \/ Failing(MaxRaises)

SpecMalformed == InitMalformed /\ [][NextMalformed]_vars

(***************************************************************************)
(* Gateway (backend/app): POST /api/chat/send through the middleware stack *)
(* of main.py.  add_middleware puts each middleware in front of those      *)
(* added before it, so a request meets CORSMiddleware, auth_middleware,    *)
(* RateLimitMiddleware and SecurityHeadersMiddleware in that order before  *)
(* its route, and the response goes back the other way.  Store and bus     *)
(* calls succeed.                                                          *)
(***************************************************************************)
\* validate_input's max_length
max_length == 50000

\* the keys of SECURITY_HEADERS
SECURITY_HEADERS ==
    {"X-Content-Type-Options", "X-Frame-Options", "X-XSS-Protection",
     "Referrer-Policy", "Permissions-Policy", "Content-Security-Policy"}

\* a message is its length and whether a dangerous pattern matches it
ChatMessages ==
    {[len |-> 0, dangerous |-> FALSE], [len |-> 5, dangerous |-> FALSE],
     [len |-> 5, dangerous |-> TRUE], [len |-> 50001, dangerous |-> FALSE]}

\* validate_input(text)[0]
validate_input(text) ==
    IF text.len = 0 THEN TRUE
    ELSE IF text.len > max_length THEN FALSE
    ELSE ~text.dangerous

\* access_token cookies: none, one that does not decode, the session of a user
Cookies == {"", "expired", "alice-token"}

NoUser == [email |-> ""]

\* services/auth.get_current_user
get_current_user(token) ==
    IF token = "alice-token" THEN [email |-> "alice@x.com"] ELSE NoUser

\* conversation_id of a request: 0 is none, -1 is not an ObjectId
ConversationIds == {-1, 0, 1, 2, 3}

Requests == [cookie : Cookies, message : ChatMessages,
             conversation_id : ConversationIds]

\* db.conversations.find_one({"_id": ObjectId(id), "user_id": user_id}) finds
\* a document; ObjectId raises on an id that is not one
Owned(convs, id, user_id) ==
    id # -1 /\ \E c \in convs : c.id = id /\ c.user_id = user_id

\* the _id insert_one gives a new conversation
NewConversationId(convs) == Cardinality(convs) + 1

\* send_message from "Get or create conversation" on, for a request whose
\* conversation, when it names one, was found
accept_message(convs, ipm, request, user_id, request_id) ==
    LET is_new == request.conversation_id = 0
        cid == IF is_new THEN NewConversationId(convs)
               ELSE request.conversation_id
        had == IF is_new
               THEN convs \cup {[id |-> cid, user_id |-> user_id,
                                 messages |-> <<>>]}
               ELSE convs
        pushed == {IF c.id = cid
                   THEN [c EXCEPT !.messages = Append(@, request.message)]
                   ELSE c : c \in had}
    IN [code |-> 200,
        body |-> [request_id |-> request_id, conversation_id |-> cid],
        conversations |-> pushed,
        ip_messages |-> Append(ipm, [user_id |-> user_id,
                                     conversation_id |-> cid,
                                     message |-> request.message]),
        published |-> SetToBag({Envelope(KAFKA_CHAT_TOPIC, request_id,
            [conversation_id |-> cid, message |-> request.message,
             user_id |-> user_id, generate_title |-> is_new])})]

\* what a route answers when it raises HTTPException(code)
Refuse(code, convs, ipm) ==
    [code |-> code, body |-> <<>>, conversations |-> convs,
     ip_messages |-> ipm, published |-> EmptyBag]

\* a send_message that validates after it has saved and published
send_message_saves_first(convs, ipm, request, user_id, request_id) ==
    IF request.conversation_id # 0
       /\ ~Owned(convs, request.conversation_id, user_id)
    THEN Refuse(404, convs, ipm)
    ELSE LET r == accept_message(convs, ipm, request, user_id, request_id)
         IN IF validate_input(request.message) THEN r
            ELSE [r EXCEPT !.code = 400, !.body = <<>>]

\* routes/chat.send_message
send_message(convs, ipm, request, user_id, request_id) ==
    IF ~validate_input(request.message)
    THEN Refuse(400, convs, ipm)
    ELSE IF request.conversation_id # 0
            /\ ~Owned(convs, request.conversation_id, user_id)
    THEN Refuse(404, convs, ipm)
    ELSE accept_message(convs, ipm, request, user_id, request_id)

\* check_rate_limit_redis on the scores of ratelimit:<key>: the pipeline
\* removes the scores up to now - window_seconds, counts, adds now
check_rate_limit_redis(zset, max_requests, window_seconds) ==
    LET window_start == now - window_seconds
        kept == SelectSeq(zset, LAMBDA score : score > window_start)
        current_count == Len(kept)
    IN [zset |-> Append(kept, now),
        is_allowed |-> current_count < max_requests,
        remaining |-> IF current_count < max_requests
                      THEN max_requests - current_count - 1 ELSE 0]

\* the one client of this model
ClientIp == "10.0.0.1"

\* the response of POST /api/chat/send
Answer(code, body) ==
    [endpoint |-> "send", id |-> 0, code |-> code, body |-> body]

\* the headers RateLimitMiddleware gives its own 429
RateLimited == {"X-RateLimit-Limit", "X-RateLimit-Remaining", "Retry-After"}

\* the headers a response of the route has once SecurityHeadersMiddleware
\* and then RateLimitMiddleware have passed it back
Passed == SECURITY_HEADERS \cup {"X-RateLimit-Limit", "X-RateLimit-Remaining"}

\* one POST /api/chat/send, from auth_middleware to the response
SendMessage(request) ==
    LET user == get_current_user(request.cookie)
        rl == check_rate_limit_redis(ratelimit, RATE_LIMIT_CHAT,
                                     RATE_LIMIT_WINDOW_SECONDS)
        request_id == BagCardinality(bus) + 1
        r == send_message(conversations, ip_messages, request, user.email,
                          request_id)
    IN /\ Len(checks) < MaxChecks
       /\ IF request.cookie = "" \/ user = NoUser
          THEN /\ response' = Answer(401, <<>>)
               /\ headers' = {}
               /\ UNCHANGED <<bus, conversations, ip_messages, ratelimit,
                              checks>>
          ELSE IF ClientIp \in blacklist
          THEN /\ response' = Answer(403, <<>>)
               /\ headers' = {}
               /\ UNCHANGED <<bus, conversations, ip_messages, ratelimit,
                              checks>>
          ELSE /\ ratelimit' = rl.zset
               /\ checks' = Append(checks, [at |-> now,
                                            allowed |-> rl.is_allowed])
               /\ IF ~rl.is_allowed
                  THEN /\ response' = Answer(429, <<>>)
                       /\ headers' = RateLimited
                       /\ UNCHANGED <<bus, conversations, ip_messages>>
                  ELSE /\ response' = Answer(r.code, r.body)
                       /\ headers' = Passed
                       /\ bus' = bus (+) r.published
                       /\ conversations' = r.conversations
                       /\ ip_messages' = r.ip_messages
       /\ UNCHANGED <<tasks, permits, result, dlq, nextOid, faults, raises,
                      terminalWritten, handlerCalled, now, blacklist,
                      blacklist_key, poll>>
       /\ UNCHANGED <<envVars, srVars, flowVars>>

\* everything but the gateway's clock and blacklist
GatewayFrame ==
    UNCHANGED <<bus, tasks, permits, result, dlq, nextOid, faults, raises,
                terminalWritten, handlerCalled, conversations, ip_messages,
                ratelimit, checks, headers, response, envVars, srVars,
                flowVars, poll>>

\* a second passes
\* (Redis drops the keys whose time to live has run out)
Tick ==
    /\ now < MaxNow
    /\ now' = now + 1
    /\ blacklist_key' = {k \in blacklist_key : k.expires > now'}
    /\ UNCHANGED blacklist
    /\ GatewayFrame

\* security.blacklist_ip: sadd to the set ip:blacklist and, for a positive
\* ttl_seconds, setex of the key ip:blacklist:<ip>
blacklist_ip(ip, ttl_seconds) ==
    /\ ip \notin blacklist
    /\ blacklist' = blacklist \cup {ip}
    /\ blacklist_key' =
           IF ttl_seconds > 0
           THEN {k \in blacklist_key : k.ip # ip}
                \cup {[ip |-> ip, expires |-> now + ttl_seconds]}
           ELSE blacklist_key
    /\ UNCHANGED now
    /\ GatewayFrame

\* security.unblacklist_ip
unblacklist_ip(ip) ==
    /\ ip \in blacklist
    /\ blacklist' = blacklist \ {ip}
    /\ blacklist_key' = {k \in blacklist_key : k.ip # ip}
    /\ UNCHANGED now
    /\ GatewayFrame

\* the gateway with a conversation of another user in its database
InitGateway ==
    /\ InitCore
    /\ InitNoRetryArgs
    /\ InitFlow
    /\ bus = EmptyBag
    /\ conversations = {[id |-> 1, user_id |-> "bob@x.com", messages |-> <<>>]}
    /\ ip_messages = <<>>
    /\ ratelimit = <<>>
    /\ now = 0
    /\ blacklist = {}
    /\ blacklist_key = {}
    /\ poll = NoPoll
    /\ checks = <<>>
    /\ headers = {}

NextGateway ==
    \/ \E request \in Requests : SendMessage(request)
    \/ Tick
    \/ \E ttl_seconds \in 0..MaxTtl : blacklist_ip(ClientIp, ttl_seconds)
    \/ unblacklist_ip(ClientIp)

SpecGateway == InitGateway /\ [][NextGateway]_vars

\* the states of the emitter's producer: None, created but never started
\* (every attempt of start_event_emitter failed at producer.start()), started
EmitterStates == {"none", "unstarted", "started"}

\* the worker with one envelope to process and the emitter in any state
InitEmit ==
    /\ InitCore
    /\ InitNoRetryArgs
    /\ conversations = {}
    /\ ip_messages = <<>>
    /\ ratelimit = <<>>
    /\ now = 0
    /\ blacklist = {}
    /\ blacklist_key = {}
    /\ poll = NoPoll
    /\ checks = <<>>
    /\ headers = {}
    /\ emitter \in EmitterStates
    /\ flow = EmptyBag
    /\ analytics_events = <<>>
    /\ analytics_metrics = NoMetrics
    /\ \/ \E id \in Ids, topic \in PrimaryTopics :
            bus = SetToBag({Envelope(topic, id, JobData)})
       \/ bus = SetToBag({publish_ragdata_delete(1)})

NextEmit ==
    \/ WorkerStep
    \/ Streaming(MaxChunks)
    \/ Failing(MaxStopRaises)

SpecEmit == InitEmit /\ [][NextEmit]_vars

(***************************************************************************)
(* Dataflow consumer (dataflow/app/services/kafka_consumer.py).            *)
(***************************************************************************)
\* transform_llm_event / transform_file_event / transform_generic_event
transform(topic, raw) ==
    [event_type |-> IF topic = KAFKAFLOW_LLM_TOPIC THEN "LLM_RESPONSE"
                    ELSE IF topic = KAFKAFLOW_FILE_TOPIC THEN "FILE_PROCESSED"
                    ELSE Get(raw, "event_type", "UNKNOWN"),
     conversation_id |-> Get(raw, "conversation_id", 0),
     success |-> Get(raw, "success", TRUE)]

\* the document the except block of _process_message inserts
ProcessingError(msg) ==
    [event_type |-> "PROCESSING_ERROR", raw_data |-> msg.value,
     topic |-> msg.topic]

\* the steps of the pipeline _process_message runs for a topic
\* (aggregate_llm_event is taken upsert by upsert: request_count, then
\* success_count or error_count, then "aggregate" for the upserts after them)
Pipeline(topic) ==
    IF topic = KAFKAFLOW_LLM_TOPIC
        THEN {"transform", "store", "request_count", "status_count",
              "aggregate", "statistics"}
    ELSE IF topic = KAFKAFLOW_FILE_TOPIC
        THEN {"transform", "store", "aggregate"}
    ELSE {"transform", "store"}

\* aggregator.aggregate_llm_event as far as it got: the upsert of
\* request_count, then the upsert of success_count or error_count
aggregate_llm_event(metrics, counted, status_counted, status_metric) ==
    LET first == IF counted
                 THEN [metrics EXCEPT !.request_count = @ + 1]
                 ELSE metrics
    IN IF status_counted
       THEN [first EXCEPT ![status_metric] = @ + 1]
       ELSE first

\* _process_message on one record of the analytics bus; raises_at is the
\* step of the pipeline that raises ("none": no step does), error_stored
\* tells whether the insert_one of the except block succeeds
ProcessEvent(msg, raises_at, error_stored) ==
    LET stored == raises_at \notin {"transform", "store"}
        aggregated == /\ "aggregate" \in Pipeline(msg.topic)
                      /\ raises_at \in {"statistics", "none"}
        event == transform(msg.topic, msg.value)
        counted == stored /\ raises_at # "request_count"
        status_metric == IF event.success THEN "success_count"
                         ELSE "error_count"
        status_counted == counted /\ raises_at # "status_count"
        events == IF stored
                  THEN Append(analytics_events, transform(msg.topic, msg.value))
                  ELSE analytics_events
    IN /\ BagIn(msg, flow)
       /\ raises_at \in Pipeline(msg.topic) \cup {"none"}
       /\ flow' = flow (-) SetToBag({msg})
       /\ analytics_events' =
              IF raises_at # "none" /\ error_stored
              THEN Append(events, ProcessingError(msg))
              ELSE events
       /\ analytics_metrics' =
              IF msg.topic = KAFKAFLOW_LLM_TOPIC
              THEN aggregate_llm_event(analytics_metrics, counted,
                                       status_counted, status_metric)
              ELSE IF aggregated
              THEN [analytics_metrics EXCEPT !.files_processed = @ + 1]
              ELSE analytics_metrics
       /\ UNCHANGED <<bus, tasks, permits, result, dlq, nextOid, faults,
                      raises, terminalWritten, handlerCalled, response,
                      emitter>>
       /\ UNCHANGED <<envVars, srVars, gwVars>>

\* what the orchestrator may have put on the analytics bus
FlowEvents ==
    {[topic |-> KAFKAFLOW_LLM_TOPIC,
      value |-> [event_type |-> "LLM_RESPONSE", conversation_id |-> 1,
                 success |-> TRUE]],
     [topic |-> KAFKAFLOW_LLM_TOPIC,
      value |-> [event_type |-> "LLM_RESPONSE", conversation_id |-> 1,
                 success |-> FALSE]],
     [topic |-> KAFKAFLOW_FILE_TOPIC,
      value |-> [event_type |-> "FILE_PROCESSED", conversation_id |-> 1,
                 success |-> TRUE]],
     [topic |-> KAFKAFLOW_FILE_TOPIC,
      value |-> [event_type |-> "FILE_PROCESSED", conversation_id |-> 1,
                 success |-> FALSE]],
     [topic |-> KAFKAFLOW_EVENTS_TOPIC,
      value |-> [event_type |-> "CONVERSATION_CREATED",
                 conversation_id |-> 1]]}

\* the dataflow consumer with MaxEvents records waiting on the analytics bus
InitDataflow ==
    /\ InitCore
    /\ InitNoRetryArgs
    /\ bus = EmptyBag
    /\ conversations = {}
    /\ ip_messages = <<>>
    /\ ratelimit = <<>>
    /\ now = 0
    /\ blacklist = {}
    /\ blacklist_key = {}
    /\ poll = NoPoll
    /\ checks = <<>>
    /\ headers = {}
    /\ emitter = "started"
    /\ analytics_events = <<>>
    /\ analytics_metrics = NoMetrics
    /\ \E waiting \in [1..MaxEvents -> FlowEvents] :
          flow = BagOfSeq(waiting)

NextDataflow ==
    \E msg \in BagToSet(flow), error_stored \in BOOLEAN :
        \E raises_at \in {"none"} \cup Pipeline(msg.topic) :
            ProcessEvent(msg, raises_at, error_stored)

SpecDataflow == InitDataflow /\ [][NextDataflow]_vars

\* the envelope of the n-th retry of a chat job, as PublishRetry sends it
RetryEnvelope(id, n) ==
    RetryRecord(create_retry_payload(
        Envelope(KAFKA_CHAT_TOPIC, id, JobData).value, KAFKA_CHAT_TOPIC,
        ErrTransient, n - 1))

\* the worker with MAX_WORKERS messages on the retry topic and one message
\* on a primary topic
InitPermits ==
    /\ InitWorker
    /\ InitNoRetryArgs
    /\ \E id \in Ids :
          \E primary \in {Envelope(topic, id, JobData) : topic \in PrimaryTopics}
                          \cup {publish_ragdata_delete(1)} :
              bus = SetToBag({RetryEnvelope(id, n) : n \in 1..MAX_WORKERS})
                    (+) SetToBag({primary})

NextPermits ==
    \/ WorkerStep
    \/ Streaming(MaxChunks)
    \/ Failing(MaxChatRaises)

SpecPermits == InitPermits /\ [][NextPermits]_vars

\* one submission, with the gateway's poll taken await by await
NextPoll ==
    \/ WorkerStep
    \/ Streaming(MaxChunks)
    \/ Failing(MaxChatRaises)
    \/ \E id \in RequestIds : poll_result_get(id)
    \/ poll_result_delete

SpecPoll == Init /\ [][NextPoll]_vars

\* one submission whose conversation is in the database
InitReply ==
    /\ InitCore
    /\ InitNoRetryArgs
    /\ InitFlow
    /\ conversations = {[id |-> JobData.conversation_id,
                         user_id |-> "bob@x.com", messages |-> <<>>]}
    /\ ip_messages = <<>>
    /\ ratelimit = <<>>
    /\ now = 0
    /\ blacklist = {}
    /\ blacklist_key = {}
    /\ poll = NoPoll
    /\ checks = <<>>
    /\ headers = {}
    /\ \/ \E id \in Ids, topic \in PrimaryTopics :
            bus = SetToBag({Envelope(topic, id, JobData)})
       \/ bus = SetToBag({publish_ragdata_delete(1)})

NextReply ==
    \/ WorkerStep
    \/ Streaming(MaxChunks)
    \/ Faulty
    \/ Failing(MaxChatRaises)

SpecReply == InitReply /\ [][NextReply]_vars

\* the first 21 hex digits of the ObjectIds of this model
ObjectIdPrefix ==
    <<"6", "5", "a", "1", "f", "0", "c", "9", "e", "8", "b", "7",
      "d", "2", "a", "6", "c", "1", "e", "0", "f">>

\* the hex digits the last three places of an ObjectId are drawn from
HexDigits == {"0", "3", "4", "5", "a"}

\* str(ObjectId): 24 hex digits
ObjectIdStrings ==
    {ObjectIdPrefix \o <<a, b, c>> : a \in HexDigits, b \in HexDigits,
                                     c \in HexDigits}

\* f"Conversation {conversation_id} not found", the message of the
\* ValueError handle_chat_request raises when find_one returns nothing
conversation_not_found(conversation_id) ==
    <<"C", "o", "n", "v", "e", "r", "s", "a", "t", "i", "o", "n", " ">>
    \o conversation_id
    \o <<" ", "n", "o", "t", " ", "f", "o", "u", "n", "d">>

\* a chat attempt whose conversation is not found, as the worker's except
\* block classifies the error
InitNotFound ==
    /\ InitAlone
    /\ args \in [conversation_id : ObjectIdStrings,
                  retry_count : 0..MaxRetryArg]

ApplyNotFound ==
    /\ rets = <<>>
    /\ LET e == conversation_not_found(args.conversation_id)
       IN rets' = << [raised |-> e,
                      retried |-> should_retry(e, args.retry_count)] >>
    /\ AloneFrame

SpecNotFound == InitNotFound /\ [][ApplyNotFound]_vars

\* one job with a stream long enough for two partial flushes
NextChat ==
    \/ WorkerStep
    \/ Streaming(MaxStream)
    \/ Gateway
    \/ Failing(MaxChatRaises)

SpecChat == Init /\ [][NextChat]_vars

(***************************************************************************)
(* Properties.                                                             *)
(***************************************************************************)
\* task k took a step
Moved(k) == CopiesIn(k, tasks') < CopiesIn(k, tasks)

\* nothing is left to run for the id: no envelope on the bus, no task
Quiescent(id) ==
    /\ \A e \in BagToSet(bus) : request_id_of(e.value) # id
    /\ \A k \in Tasks : Rid(k) # id

RetryOutcome(k) == k.did = {"publish", "retrying"}
DlqOutcome(k) == k.did = {"dlq", "error"}

\* C1: whenever a handler raised, the attempt ends having done exactly one of:
\* retry envelope published and retrying record written (when should_retry
\* holds), or job saved to the DLQ and terminal error record written
\* (otherwise); never both, never neither.
C1_ExactlyOneOutcome ==
    \A k \in Tasks :
        k.pc = "done" /\ k.handler_raised =>
            IF should_retry(k.err, k.retry_count)
            THEN RetryOutcome(k) ELSE DlqOutcome(k)

\* C2: once result:<id> holds a record with finished=1, the next value of the
\* key is either that of a finished=1 record or the key is gone (expired or
\* deleted by the poll); no write replaces it by a finished=0 record.
C2_FinishedIsFinal ==
    [][\A id \in RequestIds :
          result[id].finished = 1 =>
              result'[id] = Absent \/ result'[id].finished = 1]_vars

\* C3: the record written after a retryable failure with retry_count below
\* the maximum has status retrying and finished=0.
C3_RetryingIsNotTerminal ==
    \A id \in RequestIds :
        result[id].status = "retrying" => result[id].finished = 0

\* C4: at most one DLQ document exists per correlation id, also when two
\* tasks of the same id run save_to_dlq concurrently.
C4_OneDlqRecordPerId ==
    \A id \in RequestIds : Cardinality(Matching(dlq, id)) <= 1

\* C5: every retry envelope published carries the failed attempt's
\* retry_count plus one, at most MAX_RETRY_COUNT, and is published by an
\* attempt whose retry_count is below MAX_RETRY_COUNT; the handler is invoked
\* at most MAX_RETRY_COUNT + 1 times per submission.
C5_PublishStep ==
    \A e \in BagToSet(bus') :
        CopiesIn(e, bus') > CopiesIn(e, bus) =>
            /\ e.topic = KAFKA_RETRY_TOPIC
            /\ "_retry" \in DOMAIN e.value
            /\ e.value["_retry"].retry_count <= MAX_RETRY_COUNT
            /\ \E k \in Tasks :
                /\ Moved(k)
                /\ k.pc = "publish"
                /\ k.retry_count < MAX_RETRY_COUNT
                /\ e.value["_retry"].retry_count = k.retry_count + 1
                /\ request_id_of(e.value) = Rid(k)

C5_RetryCountBounded ==
    /\ [][C5_PublishStep]_vars
    /\ [](\A k \in Tasks : k.calls <= MAX_RETRY_COUNT + 1)

\* C5 witness: the attempt with retry_count = MAX_RETRY_COUNT, the
\* (MAX_RETRY_COUNT + 1)-th handler call, failed with a retryable error and
\* goes to the DLQ instead of publishing again.
C5_Witness ==
    \E k \in Tasks :
        /\ k.calls = MAX_RETRY_COUNT + 1
        /\ k.retry_count = MAX_RETRY_COUNT
        /\ k.handler_raised
        /\ is_retryable_error(k.err)
        /\ k.pc = "dlq_find"

\* the attempts of a chat job that failed with a retryable error
FailedChat(k, n) ==
    /\ k.original_topic = KAFKA_CHAT_TOPIC
    /\ k.retry_count = n
    /\ k.handler_raised
    /\ is_retryable_error(k.err)

ExhaustedError(id, err) ==
    /\ result[id].status = "error"
    /\ result[id].finished = 1
    /\ result[id].error = MaxRetriesPrefix \o err

\* C6 as stated: when the fifth consecutive retryable failure of a chat job
\* (the attempt with retry_count 4) has been handled, a DLQ document exists
\* with status pending, retry_count 5 and five error_history entries.
C6_AfterFifthFailure ==
    \A k \in Tasks :
        FailedChat(k, MAX_RETRY_COUNT - 1) /\ k.pc = "done" /\ ~k.raised_out =>
            \E d \in Matching(dlq, Rid(k)) :
                /\ d.status = "pending"
                /\ d.retry_count = MAX_RETRY_COUNT
                /\ Len(d.error_history) = MAX_RETRY_COUNT

\* C6 amended: it is the sixth consecutive retryable failure (the attempt
\* with retry_count 5) that is saved: its DLQ write leaves one document for
\* the id with status pending, retry_count 5 and one error_history entry, and
\* its error write leaves {status error, finished 1} with the error prefixed
\* "Max retries (5) exceeded. ".
C6_SixthFailureStep ==
    \A k \in Tasks :
        FailedChat(k, MAX_RETRY_COUNT) /\ Moved(k) =>
            /\ k.pc = "dlq_write" /\ dlq' # dlq =>
                \E d \in dlq' :
                    /\ Matching(dlq', Rid(k)) = {d}
                    /\ d.status = "pending"
                    /\ d.retry_count = 5
                    /\ d.error_history = <<k.err>>
            /\ k.pc = "set_error" /\ result' # result =>
                /\ result'[Rid(k)].status = "error"
                /\ result'[Rid(k)].finished = 1
                /\ result'[Rid(k)].error =
                      <<"M", "a", "x", " ", "r", "e", "t", "r", "i", "e", "s",
                        " ", "(", "5", ")", " ", "e", "x", "c", "e", "e", "d",
                        "e", "d", ".", " ">> \o k.err

C6_AfterSixthFailure == [][C6_SixthFailureStep]_vars

\* C6 witness: the sixth failure has been handled, the DLQ document and the
\* error record are there.
C6_Witness ==
    \E k \in Tasks :
        /\ FailedChat(k, MAX_RETRY_COUNT)
        /\ k.pc = "done"
        /\ DlqOutcome(k)
        /\ ExhaustedError(Rid(k), k.err)
        /\ \E d \in Matching(dlq, Rid(k)) : Len(d.error_history) = 1

\* the ten retryable substrings of the specification
SpecSubstrings ==
    { <<"t", "i", "m", "e", "o", "u", "t">>,
      <<"r", "a", "t", "e", "_", "l", "i", "m", "i", "t">>,
      <<"c", "o", "n", "n", "e", "c", "t", "i", "o", "n">>,
      <<"n", "e", "t", "w", "o", "r", "k">>,
      <<"5", "0", "3">>, <<"5", "0", "4">>, <<"4", "2", "9">>,
      <<"t", "e", "m", "p", "o", "r", "a", "r", "y">>,
      <<"u", "n", "a", "v", "a", "i", "l", "a", "b", "l", "e">>,
      <<"o", "v", "e", "r", "l", "o", "a", "d", "e", "d">> }

HasRetryableSubstring(error) ==
    \E p \in SpecSubstrings : Contains(Lower(error), p)

\* C7: should_retry(e, n) is true exactly when the lower-cased message of e
\* contains one of the ten retryable substrings and n < MAX_RETRY_COUNT.
C7_ShouldRetry ==
    sr_done =>
        (sr_result <=> (HasRetryableSubstring(sr_error) /\ sr_count < MAX_RETRY_COUNT))

\* C7 witness: a retryable error at n = MAX_RETRY_COUNT is refused.
C7_Witness ==
    /\ sr_done
    /\ sr_count = MAX_RETRY_COUNT
    /\ HasRetryableSubstring(sr_error)
    /\ ~sr_result

\* C8: every envelope for which a handler was called leads to a terminal
\* record for its id, and on the error path to a DLQ document; stated at the
\* states where nothing is left to run for the id.
C8_EveryJobTerminates ==
    \A id \in RequestIds :
        handlerCalled[id] /\ Quiescent(id) =>
            /\ terminalWritten[id]
            /\ result[id].status = "error" => Matching(dlq, id) # {}

\* C9: when the process stops while a fetched message's handler has not
\* finished, the message is on the bus again afterwards.
C9_StopStep ==
    up /\ ~up' =>
        \A k \in Tasks :
            k.pc \in {"queued", "backoff", "handler", "streaming", "deleting"}
                => BagIn(k.msg, bus')

C9_RedeliveredAfterStop == [][C9_StopStep]_vars

\* C10: at most MAX_WORKERS tasks are inside _process_message, every task
\* that ended has given its permit back, and with no task left all
\* MAX_WORKERS permits are available.
C10_PermitsBalanced ==
    /\ Inside <= MAX_WORKERS
    /\ permits >= 0
    /\ permits + Holders = MAX_WORKERS
    /\ tasks = EmptyBag => permits = MAX_WORKERS

\* C10 witness: the cap is reached with a task waiting for a permit, while a
\* task whose failure path raised has not yet left the semaphore.
C10_Witness ==
    /\ permits = 0
    /\ \E k \in Tasks : k.pc = "queued"
    /\ \E k \in Tasks : k.pc = "done" /\ k.raised_out


(***************************************************************************)
(* C11. On shutdown the consume loop is cancelled first, every in-flight   *)
(* handler task then runs to its natural completion, and only after that   *)
(* are the consumer, the retry producer, the event emitter and the store   *)
(* clients closed: the step that closes them starts with no task in        *)
(* flight.                                                                 *)
(***************************************************************************)
C11_ClosedAfterTasks == [][(~closed /\ closed') => tasks = EmptyBag]_vars


\* the keys a writer put in the document: the ones off their default
Written(doc) == {f \in DOMAIN doc : doc[f] # Blank[f]}

\* the body carries the document: every key written, with its value
Returned(body, doc) ==
    \A f \in Written(doc) : f \in DOMAIN body /\ body[f] = doc[f]

(***************************************************************************)
(* C12. GET /api/stream for an id answers {status: processing} when no     *)
(* record exists; a record with finished=1 is returned and its key         *)
(* deleted (so that the next poll finds nothing unless a worker writes     *)
(* again); a record with finished=0 is returned and left in place.         *)
(***************************************************************************)
C12_PollStep ==
    [][\A id \in RequestIds :
          Poll(id) =>
              LET doc == result[id]
                  body == response'.body
              IN /\ response'.code = 200
                 /\ doc = Absent =>
                        body.status = "processing" /\ result'[id] = Absent
                 /\ (doc # Absent /\ doc.finished = 1) =>
                        Returned(body, doc) /\ result'[id] = Absent
                 /\ (doc # Absent /\ doc.finished = 0) =>
                        Returned(body, doc) /\ result'[id] = doc]_vars

(***************************************************************************)
(* C13. While a job awaits a retry, GET /api/stream for its id answers a   *)
(* body with status=retrying, the retry_count and max_retry the worker     *)
(* wrote, and the error preview.                                           *)
(***************************************************************************)
C13_RetryingBody ==
    [][\A id \in RequestIds :
          (Poll(id) /\ result[id].status = "retrying") =>
              LET doc == result[id]
                  body == response'.body
              IN /\ body.status = "retrying"
                 /\ "retry_count" \in DOMAIN body
                 /\ "max_retry" \in DOMAIN body
                 /\ body["retry_count"] = doc.retry_count
                 /\ body["max_retry"] = doc.max_retry
                 /\ body.error = doc.error]_vars


\* the partial records of an attempt that has received n chunks: the empty
\* one, then one after every 10th chunk
Partials(n) ==
    [i \in 1..(n \div 10 + 1) |->
        [Blank EXCEPT !.status = "streaming", !.type = "chat",
                      !.reply = (i - 1) * 10, !.finished = 0]]

\* the completed record of an attempt that has received n chunks
Completed(n) ==
    [Blank EXCEPT !.status = "completed", !.type = "chat",
                  !.reply = n, !.finished = 1]

\* the chat attempts that have begun to stream
Streamed == {k \in Tasks : k.original_topic = KAFKA_CHAT_TOPIC /\ k.writes # <<>>}

(***************************************************************************)
(* C14. Within one chat attempt the writes to result:<id> are ordered:     *)
(* first a streaming record with empty reply, then one streaming record    *)
(* after every 10th chunk with all the chunks received so far (each reply  *)
(* a prefix of the next), and last, once the handler has returned, one     *)
(* completed record with finished=1 and all the chunks.                    *)
(***************************************************************************)
C14_WritesOrdered ==
    \A k \in Tasks :
        /\ k.pc = "streaming" => k.original_topic = KAFKA_CHAT_TOPIC
        /\ (k.pc \in {"streaming", "returned"}
                /\ k.original_topic = KAFKA_CHAT_TOPIC) =>
               k.writes = Partials(k.chunk_count)
        /\ k \in Streamed =>
               \/ k.writes = Partials(k.chunk_count)
               \/ /\ k.pc = "done"
                  /\ ~k.handler_raised
                  /\ k.writes = Partials(k.chunk_count)
                                    \o <<Completed(k.chunk_count)>>
        /\ (k \in Streamed /\ k.pc = "done" /\ ~k.handler_raised) =>
               k.writes[Len(k.writes)] = Completed(k.chunk_count)
        /\ \A i \in 1..(Len(k.writes) - 1) :
               /\ k.writes[i].finished = 0
               /\ k.writes[i].reply <= k.writes[i + 1].reply

\* an attempt of twenty-one chunks completed: two flushes between the empty
\* record and the completed one
C14_Witness ==
    \E k \in Tasks :
        /\ k.pc = "done"
        /\ k.chunk_count = 21
        /\ Len(k.writes) = 4
        /\ k.writes[3].reply = 20
        /\ k.writes[4].status = "completed"
        /\ result[Rid(k)] = k.writes[4]


(***************************************************************************)
(* C15. save_to_dlq called twice in sequence with the same request id      *)
(* leaves exactly one record of that id, whose error_history has length 2, *)
(* whose last_error is the second error and whose retry_count is the       *)
(* second call's; the second call inserts nothing and returns the id of    *)
(* the first record.                                                       *)
(***************************************************************************)
C15_SaveTwice ==
    Len(rets) = 2 =>
        LET m == Matching(dlq, args.request_id)
        IN /\ Cardinality(m) = 1
           /\ \A d \in m :
                 /\ Len(d.error_history) = 2
                 /\ d.error_history = <<args.calls[1].error, args.calls[2].error>>
                 /\ d.last_error = args.calls[2].error
                 /\ d.retry_count = args.calls[2].retry_count
                 /\ d.oid = rets[1]
           /\ rets[2] = rets[1]
           /\ Cardinality(dlq) = Cardinality(args.before) + 1
           /\ nextOid = Cardinality(args.before) + 2

\* two calls that differ in error and in retry_count, beside another record
C15_Witness ==
    /\ Len(rets) = 2
    /\ args.calls[1].error # args.calls[2].error
    /\ args.calls[1].retry_count = 5
    /\ args.calls[2].retry_count = 0
    /\ args.before # {}
    /\ Cardinality(dlq) = 2


(***************************************************************************)
(* C16. When a job whose DLQ record has status retried fails again and     *)
(* save_to_dlq is called for the same request id, the record's status      *)
(* returns to pending.                                                     *)
(***************************************************************************)
C16_RefailureStep ==
    [][\A k \in Tasks :
          (DlqWrite(k) /\ \E d \in Matching(dlq, Rid(k)) : d.status = "retried") =>
              \A d \in Matching(dlq', Rid(k)) : d.status = "pending"]_vars

\* the messages a step has added to the bus
Published == BagToSet(bus' (-) bus)

\* the record of _id id
Item(coll, id) == CHOOSE d \in coll : d.oid = id

(***************************************************************************)
(* C17. POST /api/dlq/items/{id}/retry on an existing record republishes   *)
(* the stored payload with its request id to the record's original_topic,  *)
(* never to the retry topic, and then sets the record's status to          *)
(* retried; the republished payload has no _retry metadata, so the         *)
(* attempt it starts runs with retry_count=0. For an unknown id it         *)
(* answers 404, publishes nothing and changes no record.                   *)
(***************************************************************************)
C17_AdminRetry ==
    /\ [][\A id \in DlqIds :
             retry_dlq_item(id) =>
                 IF \E d \in dlq : d.oid = id
                 THEN LET d == Item(dlq, id)
                      IN /\ bus' # bus
                         /\ BagCardinality(bus') = BagCardinality(bus) + 1
                         /\ \A m \in Published :
                               /\ m.topic = d.original_topic
                               /\ m.topic # KAFKA_RETRY_TOPIC
                               /\ "_retry" \notin DOMAIN m.value
                               /\ DOMAIN m.value =
                                      DOMAIN d.message_data \cup {"request_id"}
                               /\ m.value["request_id"] = d.request_id
                               /\ \A f \in DOMAIN d.message_data \ {"request_id"} :
                                      m.value[f] = d.message_data[f]
                         /\ dlq' = dlq
                         /\ admin'.pc = "mark"
                 ELSE /\ response'.code = 404
                      /\ bus' = bus
                      /\ dlq' = dlq
                      /\ admin' = admin]_vars
    /\ [][retry_dlq_item_mark =>
             /\ bus' = bus
             /\ response'.code = 200
             /\ \A d \in dlq' : d.oid = admin.id => d.status = "retried"
             /\ \A d \in dlq' : d.oid # admin.id => d \in dlq]_vars
    /\ [](\A k \in Tasks :
             (k.msg.topic # KAFKA_RETRY_TOPIC /\ k.pc \in InsidePcs) =>
                 k.retry_count = 0)

\* the retry of a pending record has answered 200, the record is retried and
\* the attempt the republished message started is in its handler with
\* retry_count 0 after an earlier failure of the same request
C17_Witness ==
    /\ response.endpoint = "dlq_retry"
    /\ response.code = 200
    /\ \E d \in dlq, k \in Tasks :
          /\ d.oid = response.id
          /\ d.status = "retried"
          /\ Rid(k) = d.request_id
          /\ k.msg.topic = d.original_topic
          /\ "_retry" \notin DOMAIN k.msg.value
          /\ k.pc = "handler"
          /\ k.retry_count = 0

(***************************************************************************)
(* C18. resolved is a terminal DLQ status: once a record has status        *)
(* resolved, no later operation (admin retry, retry-all, mark_retried,     *)
(* save_to_dlq on a re-failure) changes its status.                        *)
(***************************************************************************)
C18_ResolvedIsTerminal ==
    [][\A d \in dlq :
          d.status = "resolved" =>
              \A e \in dlq' : e.oid = d.oid => e.status = "resolved"]_vars

(***************************************************************************)
(* C19. In every reachable state every record of dead_letter_queue has     *)
(* status pending, retried or resolved, whichever admin operation last     *)
(* modified it, the orchestrator's or the gateway's.                       *)
(***************************************************************************)
C19_StatusDomain ==
    \A d \in dlq : d.status \in {"pending", "retried", "resolved"}


(***************************************************************************)
(* C20. For every payload d without a _retry field,                        *)
(* extract_retry_info(create_retry_payload(d, topic, err, n)) returns d    *)
(* unchanged, every field of it, with retry metadata original_topic=topic, *)
(* retry_count=n+1, max_retry=MAX_RETRY_COUNT and last_error=err; hence a  *)
(* payload keeps all its fields across any number of retries.              *)
(***************************************************************************)
C20_RoundTrip ==
    \A i \in 1..Len(rets) :
        /\ rets[i].original_data = args.d
        /\ DOMAIN rets[i].original_data = DOMAIN args.d
        /\ \A f \in DOMAIN args.d : rets[i].original_data[f] = args.d[f]
        /\ rets[i].present
        /\ rets[i].retry_info.original_topic = args.topic
        /\ rets[i].retry_info.retry_count = args.n + i
        /\ rets[i].retry_info.max_retry = 5
        /\ rets[i].retry_info.last_error = args.err

\* a payload with a field the worker does not know, after three rounds
C20_Witness ==
    /\ Len(rets) = 3
    /\ "trace_id" \in DOMAIN args.d
    /\ "request_id" \notin DOMAIN args.d
    /\ args.n = 2
    /\ rets[3].retry_info.retry_count = 5
    /\ rets[3].original_data["trace_id"] = args.d["trace_id"]


\* the i-th delay returned, less the jitter that call drew
Pure(i) == rets[i] - args.jitter[i]

IsSorted(s) == \A i \in 1..(Len(s) - 1) : s[i] <= s[i + 1]

\* the sample at 0-based position floor(n*X/100) of the sorted list s when
\* that position is below n, the last sample otherwise
Percentile(s, X) ==
    LET n == Len(s)
        index == (n * X) \div 100
    IN IF index < n THEN s[index + 1] ELSE s[n]

(***************************************************************************)
(* C27. For a sorted latency sample list of size n >= 1,                   *)
(* calculate_statistics stores pX = samples[floor(n*X/100)] for X in       *)
(* {50, 95, 99} whenever that index is below n and samples[n-1]            *)
(* otherwise; for the samples 10, 20, ..., 100 it stores p50=60, p95=100   *)
(* and p99=100.                                                            *)
(***************************************************************************)
C27_Percentiles ==
    (rets # <<>> /\ Len(args.samples) >= 1 /\ IsSorted(args.samples)) =>
        /\ Len(rets[1]) = 1
        /\ rets[1][1].p50 = Percentile(args.samples, 50)
        /\ rets[1][1].p95 = Percentile(args.samples, 95)
        /\ rets[1][1].p99 = Percentile(args.samples, 99)
        /\ args.samples = Ramp(10) =>
               /\ rets[1][1].p50 = 60
               /\ rets[1][1].p95 = 100
               /\ rets[1][1].p99 = 100

\* the statistics of 10, 20, ..., 100 have been computed
C27_Witness ==
    /\ rets # <<>>
    /\ args.samples = <<10, 20, 30, 40, 50, 60, 70, 80, 90, 100>>
    /\ rets[1][1].p50 = 60
    /\ rets[1][1].count = 10


\* the text under chunk_text is 2400 characters long and has a period+space
\* at offset 1180
Text2400 ==
    /\ args.text.len = 2400
    /\ SepAt(args.text, <<".", " ">>, 1180)

\* the text has no period, space or newline but that period+space
NoOtherMark == DOMAIN args.text.marks = {1180, 1181}

(***************************************************************************)
(* C28, as stated: chunk_text applied to a 2400-character text with a      *)
(* period+space at offset 1180 ends its first chunk at offset 1182 and     *)
(* starts its second chunk at offset 982.                                  *)
(***************************************************************************)
C28_Stated ==
    (rets # <<>> /\ Text2400) =>
        /\ Len(rets[1]) >= 2
        /\ rets[1][1].end = 1182
        /\ rets[1][2].start = 982

(***************************************************************************)
(* C28, amended: chunk_text applied to a 2400-character text with a        *)
(* period+space at offset 1180 never looks past the first 1000 characters  *)
(* for its first break: the first chunk ends past offset 500 and at or     *)
(* before offset 1000, at 1000 exactly when the text has no other period,  *)
(* space or newline; the second chunk starts 200 characters before the     *)
(* end of the first, at 800 in that case.                                  *)
(***************************************************************************)
C28_FirstBreak ==
    (rets # <<>> /\ Text2400) =>
        /\ Len(rets[1]) >= 2
        /\ rets[1][1].start = 0
        /\ rets[1][1].end > 500
        /\ rets[1][1].end <= 1000
        /\ rets[1][2].start = rets[1][1].end - 200
        /\ NoOtherMark => (rets[1][1].end = 1000 /\ rets[1][2].start = 800)

\* the 2400-character text with only that period+space has been chunked
C28_Witness ==
    /\ rets # <<>>
    /\ Text2400
    /\ NoOtherMark
    /\ Len(rets[1]) = 3
    /\ rets[1][1].end = 1000


(***************************************************************************)
(* C23. An LLM streaming failure whose message contains 'rate_limit' or    *)
(* '413' is re-raised to the worker carrying the friendly message prefix   *)
(* and is classified retryable by is_retryable_error, so the worker        *)
(* retries it while retry_count < max_retries.                             *)
(***************************************************************************)
C23_FriendlyAndRetryable ==
    (rets # <<>> /\ rate_limit_like(args.e)) =>
        /\ Take(rets[1].raised, Len(FRIENDLY_MESSAGE)) = FRIENDLY_MESSAGE
        /\ is_retryable_error(rets[1].raised)
        /\ args.retry_count < MAX_RETRY_COUNT => rets[1].retried


\* msg came from the retry topic without a _retry dict that has both
\* original_topic and retry_count
MalformedRetry(msg) ==
    /\ msg.topic = KAFKA_RETRY_TOPIC
    /\ \/ "_retry" \notin DOMAIN msg.value
       \/ ~({"original_topic", "retry_count"} \subseteq DOMAIN msg.value["_retry"])

(***************************************************************************)
(* C30. A message consumed from the retry topic whose _retry metadata is   *)
(* missing or malformed is dropped with no side effect: no handler runs,   *)
(* no ProgressRecord is written, no retry envelope is published and no     *)
(* DlqRecord is created or changed.                                        *)
(***************************************************************************)
C30_MalformedDropped ==
    \A k \in Tasks :
        MalformedRetry(k.msg) =>
            /\ k.pc \in {"queued", "backoff", "done"}
            /\ k.calls = 0
            /\ k.writes = <<>>
            /\ k.did = {}


(***************************************************************************)
(* C21. Whenever POST /api/chat/send is rejected with 400, 401, 404 or     *)
(* 429, no envelope is published on the chat topic, no conversation is     *)
(* created and no user message is persisted.                               *)
(***************************************************************************)
C21_RejectedSendWritesNothing ==
    [][(response'.endpoint = "send"
          /\ response'.code \in {400, 401, 404, 429}) =>
             UNCHANGED <<bus, conversations, ip_messages>>]_vars

\* a send was refused with 404 after another had been accepted: one
\* envelope, the caller's conversation with its message, nothing more
C21_Witness ==
    /\ response.endpoint = "send"
    /\ response.code = 404
    /\ BagCardinality(bus) = 1
    /\ Cardinality(conversations) = 2
    /\ Len(ip_messages) = 1
    /\ Len(checks) = 2

\* the calls of the rate limiter before call i that it allowed at a time t
\* with since < t
AllowedSince(i, since) ==
    {j \in 1..(i - 1) : checks[j].allowed /\ checks[j].at > since}

(***************************************************************************)
(* C22. With limit L per window of W seconds for a key: once L requests    *)
(* were accepted within the current window, the (L+1)-th request in that   *)
(* window is rejected; and the first request made after the window has     *)
(* expired (more than W seconds after those accepted requests) is          *)
(* accepted.                                                               *)
(***************************************************************************)
C22_Window ==
    \A i \in 1..Len(checks) :
        LET window_start == checks[i].at - RATE_LIMIT_WINDOW_SECONDS
        IN /\ Cardinality(AllowedSince(i, window_start)) >= RATE_LIMIT_CHAT
                 => ~checks[i].allowed
           /\ AllowedSince(i, window_start - 1) = {} => checks[i].allowed

(***************************************************************************)
(* C29. Every HTTP response of the gateway carries the configured security *)
(* headers, including responses produced without reaching a route: 401     *)
(* from the auth middleware, 403 from the IP blacklist check and 429 from  *)
(* the rate limiter.                                                       *)
(***************************************************************************)
C29_SecurityHeaders ==
    response.endpoint = "send" => SECURITY_HEADERS \subseteq headers


\* tasks with k replaced by k2
Replaced(k, k2) == (tasks (-) SetToBag({k})) (+) SetToBag({k2})

(***************************************************************************)
(* C24. A failure of the event emitter (producer never started, or         *)
(* send_and_wait raising) never changes a handler's outcome: a handler     *)
(* that returns hands its result to the worker, a handler that raises      *)
(* hands over its own error, the ProgressRecords written are the same and  *)
(* no retry or DLQ entry is produced, exactly as when emission succeeds.   *)
(***************************************************************************)
C24_EmitterHarmless ==
    [][\A k \in Tasks :
          /\ HandlerReturn(k) =>
                /\ tasks' = Replaced(k, [k EXCEPT !.pc = "returned"])
                /\ UNCHANGED <<bus, result, dlq>>
          /\ \A e \in HandlerErrors :
                HandlerRaise(k, e) =>
                    /\ tasks' = Replaced(k,
                          except_begin([k EXCEPT !.handler_raised = TRUE], e))
                    /\ UNCHANGED <<bus, result, dlq>>]_vars

\* a file job has completed on a worker whose emitter never started: one
\* write, no event, no retry, no DLQ record
C24_Witness ==
    /\ emitter = "unstarted"
    /\ flow = EmptyBag
    /\ dlq = {}
    /\ bus = EmptyBag
    /\ \E k \in Tasks :
          /\ k.pc = "done"
          /\ k.original_topic = KAFKA_FILE_TOPIC
          /\ ~k.handler_raised
          /\ Len(k.writes) = 1
          /\ k.writes[1].status = "completed"


\* the PROCESSING_ERROR documents among docs
ErrorRecords(docs) ==
    SelectSeq(docs, LAMBDA d : d.event_type = "PROCESSING_ERROR")

(***************************************************************************)
(* C25. When processing one analytics event raises at any step             *)
(* (transform, store, aggregate, statistics pass), the consumer inserts    *)
(* one PROCESSING_ERROR record carrying the raw data and keeps consuming:  *)
(* the later events on the analytics bus are still there to be processed.  *)
(***************************************************************************)
C25_ErrorRecorded ==
    [][\A msg \in BagToSet(flow), error_stored \in BOOLEAN :
          \A raises_at \in Pipeline(msg.topic) :
              ProcessEvent(msg, raises_at, error_stored) =>
                  /\ ErrorRecords(analytics_events') =
                        Append(ErrorRecords(analytics_events),
                               ProcessingError(msg))
                  /\ flow' = flow (-) SetToBag({msg})]_vars


(***************************************************************************)
(* C31. When the chat handler finds no conversation for (conversation_id,  *)
(* user_id), the failure is never retried: for every conversation id, no   *)
(* retry envelope is published for that attempt.                           *)
(***************************************************************************)
C31_NotFoundNeverRetried ==
    (rets # <<>> /\ "conversation_id" \in DOMAIN args) => ~rets[1].retried


\* the entries of the sorted set with score t
Entries(t) == {i \in 1..Len(ratelimit) : ratelimit[i] = t}

\* the requests accepted at time t
AcceptedAt(t) == {j \in 1..Len(checks) : checks[j].allowed /\ checks[j].at = t}

(***************************************************************************)
(* C32. A request rejected by check_rate_limit_redis does not consume      *)
(* quota: the rejected request leaves no entry in the key's sorted set, so *)
(* every entry of the set belongs to an accepted request.                  *)
(***************************************************************************)
C32_RejectedLeavesNoEntry ==
    \A t \in 0..MaxNow : Cardinality(Entries(t)) <= Cardinality(AcceptedAt(t))


\* the key ip:blacklist:<ip> runs out in this step
KeyExpires(ip) ==
    /\ \E k \in blacklist_key : k.ip = ip
    /\ \A k \in blacklist_key' : k.ip # ip
    /\ now' = now + 1

(***************************************************************************)
(* C33. An IP blacklisted with a TTL stops being blacklisted once the TTL  *)
(* has elapsed: when ttl_seconds have passed without further admin action, *)
(* is_ip_blacklisted returns false for it (its requests are no longer      *)
(* rejected with 403).                                                     *)
(***************************************************************************)
C33_BlacklistExpires ==
    [][KeyExpires(ClientIp) => ClientIp \notin blacklist']_vars


(***************************************************************************)
(* C34. Whenever the Result Channel holds a worker-written record with     *)
(* status=error for a correlation id, save_to_dlq for that id has already  *)
(* completed: the dead-letter collection holds a document of the id; and   *)
(* an attempt that wrote the error record saved to the DLQ first, so an    *)
(* attempt whose DLQ save raised wrote no error record.                    *)
(***************************************************************************)
C34_DlqBeforeError ==
    /\ \A id \in RequestIds :
          result[id].status = "error" => Matching(dlq, id) # {}
    /\ \A k \in Tasks :
          "error" \in k.did => Matching(dlq, Rid(k)) # {}

\* an error record is in the Result Channel, written after the DLQ save
C34_Witness ==
    \E k \in Tasks :
        /\ "error" \in k.did
        /\ result[Rid(k)].status = "error"
        /\ Matching(dlq, Rid(k)) # {}


\* attempts that ended because publish_to_retry_queue raised
PublishFailed ==
    {k \in Tasks : /\ k.pc = "done"
                   /\ k.raised_out
                   /\ k.err # <<>>
                   /\ should_retry(k.err, k.retry_count)
                   /\ "publish" \notin k.did}

(***************************************************************************)
(* C35. If publishing the retry envelope fails (send_and_wait raises)      *)
(* inside the worker's failure path, the job is not silently lost: it is   *)
(* saved to the DLQ or a terminal error record is written for its          *)
(* correlation id.                                                         *)
(***************************************************************************)
C35_PublishFailureNotLost ==
    \A k \in PublishFailed :
        \/ Matching(dlq, Rid(k)) # {}
        \/ result[Rid(k)].status = "error"


\* tasks inside wait_for_backoff
Waiting == Copies({k \in Tasks : k.pc = "backoff"})

(***************************************************************************)
(* C36. A message from the retry topic acquires its worker permit before   *)
(* its backoff wait and keeps it for the whole wait: the tasks waiting out *)
(* their backoff never outnumber the permits taken; hence while            *)
(* MAX_WORKERS retry messages are waiting, no permit is free and every     *)
(* task of a primary topic is still queued for the semaphore, its handler  *)
(* not started.                                                            *)
(***************************************************************************)
C36_BackoffHoldsPermit ==
    /\ Waiting <= MAX_WORKERS - permits
    /\ Waiting = MAX_WORKERS =>
          \A k \in Tasks : k.msg.topic # KAFKA_RETRY_TOPIC => k.pc = "queued"

\* MAX_WORKERS retry messages wait while a primary message is queued
C36_Witness ==
    /\ Waiting = MAX_WORKERS
    /\ \E k \in Tasks : k.msg.topic \in PrimaryTopics /\ k.pc = "queued"


(***************************************************************************)
(* C37. A poll never deletes a record it did not read: if a worker         *)
(* overwrites result:<id> with a newer record between the poll's read of a *)
(* finished=1 record and the poll's delete, the newer record is not        *)
(* removed.                                                                *)
(***************************************************************************)
C37_PollDeletesWhatItRead ==
    [][(poll.pending /\ ~poll'.pending /\ result[poll.id] # poll.doc)
          => result'[poll.id] = result[poll.id]]_vars


\* the assistant messages of conversation c
AssistantMessages(c) ==
    SelectSeq(c.messages, LAMBDA m : m.role = "assistant")

(***************************************************************************)
(* C38. For each correlation id, across all attempts of one submission     *)
(* (the initial attempt plus its retries), at most one assistant message   *)
(* is appended to the conversation, including when the failure that        *)
(* triggers a retry happens after the handler has persisted its reply.     *)
(***************************************************************************)
C38_OneAssistantMessage ==
    \A c \in conversations : Len(AssistantMessages(c)) <= 1


(***************************************************************************)
(* C39. For every (model, time_bucket), whenever no LLM event is           *)
(* mid-aggregation, the request_count value equals the success_count value *)
(* plus the error_count value, even if the processing of some event failed *)
(* part-way through aggregate_llm_event.                                   *)
(***************************************************************************)
C39_CountsAgree ==
    analytics_metrics.request_count =
        analytics_metrics.success_count + analytics_metrics.error_count

====
